---- MODULE Spec2Model ----
(***************************************************************************)
(* Ledger engine of MOW: the SQLite store behind DatabaseManager           *)
(* (src/inventory_app.py), the document reconciliation of SyncManager and  *)
(* the request handlers of the Flask front end (src/web_app.py).           *)
(*                                                                         *)
(* Money is REAL in the schema; the model uses integers (every amount the  *)
(* model produces is a product or a sum of small integers, which floats    *)
(* represent exactly).  Tax rates are held in percent.                     *)
(***************************************************************************)
EXTENDS Integers, Sequences, FiniteSets, TLC

VARIABLES db, excel_doc, tsv_doc, last, req, nops, today

vars == <<db, excel_doc, tsv_doc, last, req, nops, today>>

----------------------------------------------------------------------------
(* Bounds and input domains *)

\* number of calls explored in one session
MaxOps == 2
\* largest stock / quantity argument
MaxQty == 1

Codes == {"P1", "P2"}
\* the name the calls of a session pass
Names == {"n"}
\* (cost, price) pairs a caller may pass
CostPrice == {<<1, 2>>, <<2, 1>>}
\* stock and quantity arguments: a negative one, zero and the largest
StockArgs == {-1, 0, MaxQty}
QtyArgs == {-1, 0, MaxQty}
ReorderArgs == {0}
VatArgs == {10, 20}
IncomeArgs == {10}
Threads == {1, 2}

----------------------------------------------------------------------------
(* Dates.  A date is <<year, month, day>>.  The store holds a date as the   *)
(* text date.isoformat() gives; a row of the model holds the date, and      *)
(* every query that compares or cuts the column does so on that text.       *)

\* the character '-' collates before the digits
Dash == -1

\* n written with `width` digits, zero-padded
RECURSIVE Digits(_, _)
Digits(n, width) ==
    IF width = 0 THEN <<>> ELSE Digits(n \div 10, width - 1) \o <<n % 10>>

\* date.isoformat(): YYYY-MM-DD, as the sequence of its characters
isoformat(date) ==
    Digits(date[1], 4) \o <<Dash>> \o Digits(date[2], 2) \o <<Dash>> \o Digits(date[3], 2)

\* a < b for TEXT values (BINARY collation): the first differing character
\* decides, a proper prefix comes first
RECURSIVE TextLess(_, _)
TextLess(a, b) ==
    IF b = <<>> THEN FALSE
    ELSE IF a = <<>> THEN TRUE
    ELSE IF Head(a) # Head(b) THEN Head(a) < Head(b)
    ELSE TextLess(Tail(a), Tail(b))

\* the days on which calls are made: the last day of a year, the first day
\* of January and the first day of February
Days == << <<2023, 12, 31>>, <<2024, 1, 1>>, <<2024, 2, 1>> >>
\* the day of a desktop or web session
SessionDay == Days[2]

----------------------------------------------------------------------------
(* The store *)

\* tax_settings row inserted by _initialize (percent)
DefaultVat == 10
DefaultIncomeTax == 10

\* a database file that does not exist yet: no table holds a row
NewFile ==
    [products |-> {},
     product_seq |-> 0,
     inventory_movements |-> <<>>,
     sales |-> <<>>,
     cash_movements |-> <<>>,
     tax_settings |-> {}]

\* mutant: the default rates are written with INSERT OR REPLACE
initialize_resets(d) ==
    [d EXCEPT !.tax_settings =
        {[id |-> 1, vat_rate |-> DefaultVat, income_tax_rate |-> DefaultIncomeTax]}]

\* _initialize: CREATE TABLE IF NOT EXISTS keeps every table that exists;
\* INSERT INTO tax_settings ... ON CONFLICT(id) DO NOTHING adds the row with
\* id 1 and the default rates only when there is none
initialize(d) ==
    IF \E r \in d.tax_settings : r.id = 1
    THEN d
    ELSE [d EXCEPT !.tax_settings =
            @ \cup {[id |-> 1, vat_rate |-> DefaultVat,
                      income_tax_rate |-> DefaultIncomeTax]}]

\* state of a freshly initialised database file
EmptyDb == initialize(NewFile)

\* SELECT * FROM products WHERE product_code = ? : the matching rows (0 or 1)
get_product(d, code) == {p \in d.products : p.product_code = code}

TheRow(rows) == CHOOSE p \in rows : TRUE

StockOf(d, code) == TheRow(get_product(d, code)).stock

\* INSERT INTO inventory_movements
log_inventory_movement(d, product_id, movement_type, quantity, unit_cost) ==
    [d EXCEPT !.inventory_movements =
        Append(@, [product_id |-> product_id, movement_type |-> movement_type,
                   quantity |-> quantity, unit_cost |-> unit_cost,
                   movement_date |-> today])]

\* mutant: the cash log keeps the latest movement only
log_cash_latest_only(d, description, amount) ==
    [d EXCEPT !.cash_movements =
        <<[description |-> description, amount |-> amount,
           movement_type |-> IF amount >= 0 THEN "IN" ELSE "OUT",
           movement_date |-> today]>>]

\* INSERT INTO cash_movements ; the type is derived from the sign
log_cash(d, description, amount) ==
    [d EXCEPT !.cash_movements =
        Append(@, [description |-> description, amount |-> amount,
                   movement_type |-> IF amount >= 0 THEN "IN" ELSE "OUT",
                   movement_date |-> today])]

\* mutant: the connection runs in autocommit mode, so the writes made before
\* the exception stay
Rollback_autocommit(committed, draft) == draft

\* `with self._connect() as conn:` leaving the block on an exception rolls the
\* open transaction back: the committed state stays
Rollback(committed, draft) == committed

\* conn.commit()
Commit(draft) == draft

\* A transaction whose successive drafts are `drafts`; fault = 0 runs to the
\* commit, fault = k raises right after the k-th write.
RunTxn(committed, drafts, fault) ==
    IF fault = 0
    THEN [db |-> Commit(drafts[Len(drafts)]), result |-> "ok"]
    ELSE [db |-> Rollback(committed, drafts[fault]), result |-> "IOError"]

----------------------------------------------------------------------------
(* Product operations *)

\* INSERT OR REPLACE INTO products: a row with the same product_code is deleted
\* and a new row with a fresh AUTOINCREMENT id is inserted
InsertOrReplaceProduct(d, code, name, cost, price, stock, reorder_level) ==
    [d EXCEPT
        !.products = {p \in @ : p.product_code # code} \cup
            {[id |-> d.product_seq + 1, product_code |-> code, name |-> name,
              cost |-> cost, price |-> price, stock |-> stock,
              reorder_level |-> reorder_level]},
        !.product_seq = @ + 1]

\* mutant: the initial stock is booked as a purchase
add_product_drafts_as_purchase(d, code, name, cost, price, stock, reorder_level) ==
    LET d1 == InsertOrReplaceProduct(d, code, name, cost, price, stock, reorder_level)
        product_id == d1.product_seq
    IN  IF stock # 0
        THEN <<d1, log_cash(log_inventory_movement(d1, product_id, "IN", stock, cost),
                            <<name, "purchase">>, -(cost * stock))>>
        ELSE <<d1>>

\* the writes of add_product: the row, then the movement `if stock:`
add_product_drafts(d, code, name, cost, price, stock, reorder_level) ==
    LET d1 == InsertOrReplaceProduct(d, code, name, cost, price, stock, reorder_level)
        product_id == d1.product_seq
    IN  IF stock # 0
        THEN <<d1, log_inventory_movement(d1, product_id, "IN", stock, cost)>>
        ELSE <<d1>>

add_product(d, code, name, cost, price, stock, reorder_level, fault) ==
    RunTxn(d, add_product_drafts(d, code, name, cost, price, stock, reorder_level), fault)

\* mutant: the purchase is logged as cash coming in
restock_drafts_cash_in(d, product, code, quantity) ==
    LET d1 == [d EXCEPT !.products =
                  {IF p.product_code = code
                   THEN [p EXCEPT !.stock = @ + quantity] ELSE p : p \in @}]
        d2 == log_inventory_movement(d1, product.id, "IN", quantity, product.cost)
        d3 == log_cash(d2, <<product.name, "purchase">>, product.cost * quantity)
    IN  <<d1, d2, d3>>

\* the write transaction of restock, given the row read by get_product
restock_drafts(d, product, code, quantity) ==
    LET d1 == [d EXCEPT !.products =
                  {IF p.product_code = code
                   THEN [p EXCEPT !.stock = @ + quantity] ELSE p : p \in @}]
        d2 == log_inventory_movement(d1, product.id, "IN", quantity, product.cost)
        d3 == log_cash(d2, <<product.name, "purchase">>, -(product.cost * quantity))
    IN  <<d1, d2, d3>>

restock_txn(d, product, code, quantity, fault) ==
    RunTxn(d, restock_drafts(d, product, code, quantity), fault)

\* mutant: an unknown code is ignored silently instead of raising
restock_ignores_unknown(d, code, quantity, fault) ==
    LET found == get_product(d, code)
    IN  IF found = {}
        THEN [db |-> d, result |-> "ok"]
        ELSE restock_txn(d, TheRow(found), code, quantity, fault)

restock(d, code, quantity, fault) ==
    LET found == get_product(d, code)
    IN  IF found = {}
        THEN [db |-> d, result |-> "NotFound"]
        ELSE restock_txn(d, TheRow(found), code, quantity, fault)

----------------------------------------------------------------------------
(* Sales *)

\* mutant: the UPDATE has no WHERE clause
record_sale_drafts_no_where(d, product, quantity) ==
    LET d1 == [d EXCEPT !.products = {[p EXCEPT !.stock = @ - quantity] : p \in @}]
        d2 == [d1 EXCEPT !.sales =
                  Append(@, [product_id |-> product.id, quantity |-> quantity,
                             sale_price |-> product.price,
                             sale_date |-> today])]
        d3 == log_inventory_movement(d2, product.id, "OUT", quantity, product.cost)
        d4 == log_cash(d3, <<product.name, "sale">>, product.price * quantity)
    IN  <<d1, d2, d3, d4>>

\* the write transaction of record_sale, given the row read by get_product
record_sale_drafts(d, product, quantity) ==
    LET d1 == [d EXCEPT !.products =
                  {IF p.id = product.id
                   THEN [p EXCEPT !.stock = @ - quantity] ELSE p : p \in @}]
        d2 == [d1 EXCEPT !.sales =
                  Append(@, [product_id |-> product.id, quantity |-> quantity,
                             sale_price |-> product.price,
                             sale_date |-> today])]
        d3 == log_inventory_movement(d2, product.id, "OUT", quantity, product.cost)
        d4 == log_cash(d3, <<product.name, "sale">>, product.price * quantity)
    IN  <<d1, d2, d3, d4>>

record_sale_txn(d, product, quantity, fault) ==
    RunTxn(d, record_sale_drafts(d, product, quantity), fault)

\* mutant: the stock test is off by one
record_sale_check_off_by_one(found, quantity) ==
    IF found = {} THEN "NotFound"
    ELSE IF TheRow(found).stock + 1 < quantity THEN "InsufficientStock"
    ELSE "ok"

\* the two checks made on the row read before the transaction is opened
record_sale_check(found, quantity) ==
    IF found = {} THEN "NotFound"
    ELSE IF TheRow(found).stock < quantity THEN "InsufficientStock"
    ELSE "ok"

\* mutant: the revenue returned is the margin of the sale
sale_revenue_margin(product, quantity) == (product.price - product.cost) * quantity

\* the dictionary record_sale returns
sale_revenue(product, quantity) == product.price * quantity

\* mutant: the cost of goods sold is computed from the sale price
sale_cogs_from_price(product, quantity) == product.price * quantity

sale_cogs(product, quantity) == product.cost * quantity

record_sale(d, code, quantity, fault) ==
    LET found == get_product(d, code)
        check == record_sale_check(found, quantity)
    IN  IF check # "ok"
        THEN [db |-> d, result |-> check, revenue |-> 0, cogs |-> 0]
        ELSE LET t == record_sale_txn(d, TheRow(found), quantity, fault)
             IN  [db |-> t.db, result |-> t.result,
                  revenue |-> IF t.result = "ok"
                              THEN sale_revenue(TheRow(found), quantity) ELSE 0,
                  cogs |-> IF t.result = "ok"
                           THEN sale_cogs(TheRow(found), quantity) ELSE 0]

----------------------------------------------------------------------------
(* Tax settings *)

\* SELECT vat_rate, income_tax_rate FROM tax_settings WHERE id = 1
get_tax_rates(d) ==
    LET row == TheRow({r \in d.tax_settings : r.id = 1})
    IN  [vat_rate |-> row.vat_rate, income_tax_rate |-> row.income_tax_rate]

\* UPDATE tax_settings SET ... WHERE id = 1
update_tax_rates(d, vat_rate, income_tax_rate, fault) ==
    RunTxn(d, <<[d EXCEPT !.tax_settings =
                    {IF r.id = 1
                     THEN [r EXCEPT !.vat_rate = vat_rate,
                                    !.income_tax_rate = income_tax_rate]
                     ELSE r : r \in @}]>>,
           fault)

\* SELECT SUM(amount) FROM cash_movements, 0 when there is no row
RECURSIVE SumAmounts(_)
SumAmounts(rows) ==
    IF rows = <<>> THEN 0 ELSE Head(rows).amount + SumAmounts(Tail(rows))

\* mutant: the balance adds up the receipts only
get_cash_balance_receipts(d) ==
    SumAmounts(SelectSeq(d.cash_movements, LAMBDA m : m.amount > 0))

get_cash_balance(d) == SumAmounts(d.cash_movements)

----------------------------------------------------------------------------
(* Bulk operations used by the reconciliation import *)

\* a document cell: a number, or text that int()/float() rejects
Num(v) == [num |-> TRUE, val |-> v]
Text == [num |-> FALSE, val |-> 0]

ProductRowOk(row) ==
    row.cost.num /\ row.price.num /\ row.stock.num /\ row.reorder_level.num

\* mutant: the upsert logs the row's stock as an IN movement, as add_product does
UpsertProduct_logs_movement(d, row) ==
    LET up == IF get_product(d, row.product_code) # {}
              THEN [d EXCEPT
                      !.products =
                          {IF p.product_code = row.product_code
                           THEN [p EXCEPT !.name = row.name, !.cost = row.cost.val,
                                          !.price = row.price.val, !.stock = row.stock.val,
                                          !.reorder_level = row.reorder_level.val]
                           ELSE p : p \in @},
                      !.product_seq = @ + 1]
              ELSE [d EXCEPT
                      !.products = @ \cup
                          {[id |-> d.product_seq + 1, product_code |-> row.product_code,
                            name |-> row.name, cost |-> row.cost.val,
                            price |-> row.price.val, stock |-> row.stock.val,
                            reorder_level |-> row.reorder_level.val]},
                      !.product_seq = @ + 1]
    IN  log_inventory_movement(up, TheRow(get_product(up, row.product_code)).id,
                               "IN", row.stock.val, row.cost.val)

\* INSERT ... ON CONFLICT(product_code) DO UPDATE: an existing row keeps its id
\* (SQLite has drawn an AUTOINCREMENT value for the attempted insert by then,
\* so the sequence advances on the update path too)
UpsertProduct(d, row) ==
    IF get_product(d, row.product_code) # {}
    THEN [d EXCEPT
            !.products =
                {IF p.product_code = row.product_code
                 THEN [p EXCEPT !.name = row.name, !.cost = row.cost.val,
                                !.price = row.price.val, !.stock = row.stock.val,
                                !.reorder_level = row.reorder_level.val]
                 ELSE p : p \in @},
            !.product_seq = @ + 1]
    ELSE [d EXCEPT
            !.products = @ \cup
                {[id |-> d.product_seq + 1, product_code |-> row.product_code,
                  name |-> row.name, cost |-> row.cost.val, price |-> row.price.val,
                  stock |-> row.stock.val, reorder_level |-> row.reorder_level.val]},
            !.product_seq = @ + 1]

\* number of leading rows that convert without raising; oks[i] tells whether
\* row i converts
RECURSIVE GoodPrefix(_, _)
GoodPrefix(oks, i) ==
    IF i > Len(oks) \/ ~oks[i] THEN i - 1 ELSE GoodPrefix(oks, i + 1)

\* the draft after the first n rows of the loop
RECURSIVE UpsertedUpTo(_, _, _)
UpsertedUpTo(d, rows, n) ==
    IF n = 0 THEN d ELSE UpsertProduct(UpsertedUpTo(d, rows, n - 1), rows[n])

\* fault = k > 0: an I/O error right after the k-th row's statement
bulk_upsert_products(d, rows, fault) ==
    IF rows = <<>>
    THEN [db |-> d, result |-> "ok"]
    ELSE LET n == GoodPrefix([i \in 1..Len(rows) |-> ProductRowOk(rows[i])], 1)
         IN  IF fault # 0 /\ fault <= n
             THEN [db |-> Rollback(d, UpsertedUpTo(d, rows, fault)), result |-> "IOError"]
             ELSE IF n < Len(rows)
             THEN [db |-> Rollback(d, UpsertedUpTo(d, rows, n)), result |-> "InvalidInput"]
             ELSE [db |-> Commit(UpsertedUpTo(d, rows, n)), result |-> "ok"]

\* a sales row raises only if its product code is known (unknown codes are
\* skipped before the conversions) and a numeric field is not a number
SaleRowOk(d, row) ==
    get_product(d, row.product_code) = {} \/ (row.quantity.num /\ row.sale_price.num)

\* str(row.get("sale_date") or dt.date.today().isoformat()): the row's date,
\* today's when the row has no such column or an empty one
SaleDate(row) ==
    IF "sale_date" \in DOMAIN row /\ row.sale_date # <<>>
    THEN row.sale_date ELSE today

\* the draft after DELETE FROM sales and the first n rows of the loop
RECURSIVE ReinsertedUpTo(_, _, _)
ReinsertedUpTo(d, rows, n) ==
    IF n = 0 THEN [d EXCEPT !.sales = <<>>]
    ELSE LET before == ReinsertedUpTo(d, rows, n - 1)
             found == get_product(d, rows[n].product_code)
         IN  IF found = {} THEN before
             ELSE [before EXCEPT !.sales =
                     Append(@, [product_id |-> TheRow(found).id,
                                quantity |-> rows[n].quantity.val,
                                sale_price |-> rows[n].sale_price.val,
                                sale_date |-> SaleDate(rows[n])])]

\* mutant: the receipts of the discarded sales are deleted with them
replace_sales_clears_cash(d, rows, fault) ==
    LET n == GoodPrefix([i \in 1..Len(rows) |-> SaleRowOk(d, rows[i])], 1)
        cleared(dd) == [dd EXCEPT !.cash_movements = SelectSeq(@, LAMBDA m : m.amount < 0)]
    IN  IF fault # 0
        THEN [db |-> Rollback(d, ReinsertedUpTo(d, rows, 0)), result |-> "IOError"]
        ELSE IF n < Len(rows)
        THEN [db |-> Rollback(d, ReinsertedUpTo(d, rows, n)), result |-> "InvalidInput"]
        ELSE [db |-> Commit(cleared(ReinsertedUpTo(d, rows, n))), result |-> "ok"]

\* mutant: the DELETE is missing, the rows are added to the old sales
replace_sales_keeps_old(d, rows, fault) ==
    LET n == GoodPrefix([i \in 1..Len(rows) |-> SaleRowOk(d, rows[i])], 1)
        kept(dd) == [dd EXCEPT !.sales = d.sales \o @]
    IN  IF fault # 0
        THEN [db |-> Rollback(d, ReinsertedUpTo(d, rows, 0)), result |-> "IOError"]
        ELSE IF n < Len(rows)
        THEN [db |-> Rollback(d, ReinsertedUpTo(d, rows, n)), result |-> "InvalidInput"]
        ELSE [db |-> Commit(kept(ReinsertedUpTo(d, rows, n))), result |-> "ok"]

\* fault = 1: an I/O error right after the DELETE
replace_sales(d, rows, fault) ==
    LET n == GoodPrefix([i \in 1..Len(rows) |-> SaleRowOk(d, rows[i])], 1)
    IN  IF fault # 0
        THEN [db |-> Rollback(d, ReinsertedUpTo(d, rows, 0)), result |-> "IOError"]
        ELSE IF n < Len(rows)
        THEN [db |-> Rollback(d, ReinsertedUpTo(d, rows, n)), result |-> "InvalidInput"]
        ELSE [db |-> Commit(ReinsertedUpTo(d, rows, n)), result |-> "ok"]

\* the defaults data.get(..., 0.1) falls back on when the record has no such
\* column (percent)
MissingVat == 10
MissingIncomeTax == 10

\* mutant: a rate whose column the record lacks keeps its stored value
apply_tax_frame_keeps_missing(d, row, fault) ==
    LET vat == IF "vat_rate" \in DOMAIN row
               THEN row.vat_rate ELSE Num(get_tax_rates(d).vat_rate)
        income == IF "income_tax_rate" \in DOMAIN row
                  THEN row.income_tax_rate ELSE Num(get_tax_rates(d).income_tax_rate)
    IN  IF ~(vat.num /\ income.num)
        THEN [db |-> d, result |-> "InvalidInput"]
        ELSE update_tax_rates(d, vat.val, income.val, fault)

\* float() of the two cells (or of the default for a column the record lacks),
\* then update_tax_rates
apply_tax_frame(d, row, fault) ==
    LET vat == IF "vat_rate" \in DOMAIN row THEN row.vat_rate ELSE Num(MissingVat)
        income == IF "income_tax_rate" \in DOMAIN row
                  THEN row.income_tax_rate ELSE Num(MissingIncomeTax)
    IN  IF ~(vat.num /\ income.num)
        THEN [db |-> d, result |-> "InvalidInput"]
        ELSE update_tax_rates(d, vat.val, income.val, fault)

----------------------------------------------------------------------------
(* Sync documents *)

Sheet(rows) == [present |-> TRUE, rows |-> rows]
NoSheet == [present |-> FALSE, rows |-> <<>>]
Frames(products, sales, tax_settings) ==
    [products |-> products, sales |-> sales, tax_settings |-> tax_settings]
NoFile == [exists |-> FALSE, frames |-> Frames(NoSheet, NoSheet, NoSheet)]
File(frames) == [exists |-> TRUE, frames |-> frames]

\* position of a stored name in SQLite's BINARY collation
NameRank(name) == CASE name = "" -> 0 [] name = "0" -> 1 [] name = "0.0" -> 2 [] OTHER -> 3

\* rows of a set of products as ORDER BY name returns them (rows with equal
\* names come in rowid order)
RECURSIVE ByName(_)
ByName(rows) ==
    IF rows = {} THEN <<>>
    ELSE LET first == CHOOSE p \in rows : \A o \in rows :
                          \/ NameRank(p.name) < NameRank(o.name)
                          \/ NameRank(p.name) = NameRank(o.name) /\ p.id <= o.id
         IN  <<first>> \o ByName(rows \ {first})

fetch_products(d) == ByName(d.products)

\* sales JOIN products: a sale whose product_id matches no row is not listed
RECURSIVE JoinSales(_, _)
JoinSales(d, sales) ==
    IF sales = <<>> THEN <<>>
    ELSE LET s == Head(sales)
             owner == {p \in d.products : p.id = s.product_id}
         IN  (IF owner = {} THEN <<>>
              ELSE <<[product_code |-> TheRow(owner).product_code,
                      name |-> TheRow(owner).name,
                      quantity |-> s.quantity, sale_price |-> s.sale_price,
                      sale_date |-> s.sale_date]>>)
             \o JoinSales(d, Tail(sales))

\* rows (given in id order) with row s put in its place for
\* ORDER BY sale_date ASC, id ASC
RECURSIVE InsertBySaleDate(_, _)
InsertBySaleDate(rows, s) ==
    IF rows = <<>> THEN <<s>>
    ELSE IF TextLess(isoformat(s.sale_date), isoformat(Head(rows).sale_date))
         THEN <<s>> \o rows
    ELSE <<Head(rows)>> \o InsertBySaleDate(Tail(rows), s)

RECURSIVE BySaleDate(_)
BySaleDate(rows) ==
    IF rows = <<>> THEN <<>>
    ELSE InsertBySaleDate(BySaleDate(SubSeq(rows, 1, Len(rows) - 1)), rows[Len(rows)])

fetch_all_sales(d) == BySaleDate(JoinSales(d, d.sales))

\* SUM(quantity * sale_price) over sales JOIN products
RECURSIVE SumRevenue(_)
SumRevenue(rows) ==
    IF rows = <<>> THEN 0
    ELSE Head(rows).quantity * Head(rows).sale_price + SumRevenue(Tail(rows))

----------------------------------------------------------------------------
(* Reports *)

\* a column of a fetched row: <<>> for NULL (None), <<v>> for the value v
NULL == <<>>
\* SUM(...) over `rows`, `total` being the sum when there is a row: NULL over
\* no row
SqlSum(rows, total) == IF rows = <<>> THEN NULL ELSE <<total>>
\* `value or 0.0`
OrZero(value) == IF value = NULL THEN 0 ELSE value[1]

\* the window of get_monthly_summary: the texts of the first day of the month
\* and of the first day of the next one
WindowStart(year, month) == isoformat(<<year, month, 1>>)
WindowEnd(year, month) ==
    IF month = 12 THEN isoformat(<<year + 1, 1, 1>>) ELSE isoformat(<<year, month + 1, 1>>)

\* mutant: the window takes the first day of the next month in
InWindow_closed(text, start, end) == ~TextLess(text, start) /\ ~TextLess(end, text)

\* date >= ? AND date < ?
InWindow(text, start, end) == ~TextLess(text, start) /\ TextLess(text, end)

\* mutant: the revenue is taken from the price the product has now
WindowSales_current_price(d, start, end) ==
    LET joined(s) == \E p \in d.products : p.id = s.product_id
        kept == SelectSeq(d.sales, LAMBDA s : joined(s) /\ InWindow(isoformat(s.sale_date), start, end))
    IN  [i \in 1..Len(kept) |->
            [quantity |-> kept[i].quantity,
             sale_price |-> TheRow({p \in d.products : p.id = kept[i].product_id}).price,
             sale_date |-> kept[i].sale_date,
             cost |-> TheRow({p \in d.products : p.id = kept[i].product_id}).cost]]

\* mutant: the sales query has no WHERE clause
WindowSales_no_where(d, start, end) ==
    LET joined(s) == \E p \in d.products : p.id = s.product_id
        kept == SelectSeq(d.sales, LAMBDA s : joined(s))
    IN  [i \in 1..Len(kept) |->
            [quantity |-> kept[i].quantity, sale_price |-> kept[i].sale_price,
             sale_date |-> kept[i].sale_date,
             cost |-> TheRow({p \in d.products : p.id = kept[i].product_id}).cost]]

\* sales s JOIN products p ON p.id = s.product_id WHERE the date is in the
\* window; each row carries the cost of its product as it is now
WindowSales(d, start, end) ==
    LET joined(s) == \E p \in d.products : p.id = s.product_id
        kept == SelectSeq(d.sales, LAMBDA s : joined(s) /\ InWindow(isoformat(s.sale_date), start, end))
    IN  [i \in 1..Len(kept) |->
            [quantity |-> kept[i].quantity, sale_price |-> kept[i].sale_price,
             sale_date |-> kept[i].sale_date,
             cost |-> TheRow({p \in d.products : p.id = kept[i].product_id}).cost]]

\* SUM(quantity * p.cost)
RECURSIVE SumCogs(_)
SumCogs(rows) ==
    IF rows = <<>> THEN 0
    ELSE Head(rows).quantity * Head(rows).cost + SumCogs(Tail(rows))

\* SUM(quantity * unit_cost)
RECURSIVE SumPurchases(_)
SumPurchases(rows) ==
    IF rows = <<>> THEN 0
    ELSE Head(rows).quantity * Head(rows).unit_cost + SumPurchases(Tail(rows))

\* SUM(stock * cost) over a set of product rows
RECURSIVE SumStockValue(_)
SumStockValue(rows) ==
    IF rows = {} THEN 0
    ELSE LET p == TheRow(rows) IN p.stock * p.cost + SumStockValue(rows \ {p})

get_inventory_value(d) ==
    OrZero(IF d.products = {} THEN NULL ELSE <<SumStockValue(d.products)>>)

\* The six queries of get_monthly_summary, in the order it runs them; each
\* SELECT is a statement of its own (no transaction spans them) and the last
\* three go through connections of their own.
SummaryReads ==
    <<"sales", "purchases", "cash_flow", "tax_rates", "inventory_value", "cash_balance">>

SummaryRead(d, year, month, k) ==
    LET start == WindowStart(year, month)
        end == WindowEnd(year, month)
    IN  CASE SummaryReads[k] = "sales" ->
                LET rows == WindowSales(d, start, end)
                IN  [revenue |-> OrZero(SqlSum(rows, SumRevenue(rows))),
                     cogs |-> OrZero(SqlSum(rows, SumCogs(rows)))]
          [] SummaryReads[k] = "purchases" ->
                LET rows == SelectSeq(d.inventory_movements,
                                LAMBDA m : /\ m.movement_type = "IN"
                                           /\ InWindow(isoformat(m.movement_date), start, end))
                IN  OrZero(SqlSum(rows, SumPurchases(rows)))
          [] SummaryReads[k] = "cash_flow" ->
                LET rows == SelectSeq(d.cash_movements,
                                LAMBDA m : InWindow(isoformat(m.movement_date), start, end))
                IN  OrZero(SqlSum(rows, SumAmounts(rows)))
          [] SummaryReads[k] = "tax_rates" -> get_tax_rates(d)
          [] SummaryReads[k] = "inventory_value" -> get_inventory_value(d)
          [] SummaryReads[k] = "cash_balance" -> get_cash_balance(d)

\* the rates are held in percent: an amount multiplied by a rate is in
\* hundredths, and so is every figure that adds or subtracts such an amount
Percent == 100

Max(a, b) == IF a >= b THEN a ELSE b

\* the dictionary get_monthly_summary builds from what its queries returned;
\* vat, income_tax, net_income, liabilities and equity are in hundredths
Summarise(read) ==
    LET revenue == read[1].revenue
        cogs == read[1].cogs
        purchases == read[2]
        cash_flow == read[3]
        tax_rates == read[4]
        gross_profit == revenue - cogs
        vat == revenue * tax_rates.vat_rate
        income_tax == Max(gross_profit, 0) * tax_rates.income_tax_rate
        net_income == Percent * gross_profit - income_tax
        inventory_value == read[5]
        cash_balance == read[6]
    IN  [revenue |-> revenue, cogs |-> cogs, gross_profit |-> gross_profit,
         vat |-> vat, income_tax |-> income_tax, net_income |-> net_income,
         purchases |-> purchases, cash_flow |-> cash_flow,
         inventory_value |-> inventory_value, cash_balance |-> cash_balance,
         assets |-> cash_balance + inventory_value,
         liabilities |-> vat + income_tax,
         equity |-> Percent * (cash_balance + inventory_value) - (vat + income_tax)]

get_monthly_summary(d, year, month) ==
    Summarise([k \in 1..Len(SummaryReads) |-> SummaryRead(d, year, month, k)])

\* substr(sale_date, 1, 7): the YYYY-MM label of a sale
Period(text) == SubSeq(text, 1, 7)

\* the labels of a set, ORDER BY period DESC
RECURSIVE PeriodsDesc(_)
PeriodsDesc(periods) ==
    IF periods = {} THEN <<>>
    ELSE LET latest == CHOOSE p \in periods : \A q \in periods : ~TextLess(p, q)
         IN  <<latest>> \o PeriodsDesc(periods \ {latest})

\* LIMIT n: a negative n is no limit
Limit(rows, n) ==
    IF n < 0 \/ n >= Len(rows) THEN rows ELSE SubSeq(rows, 1, n)

\* mutant: the rows stay in the order the query gave them
Reversed_kept(rows) == rows

\* reversed(rows)
Reversed(rows) == [i \in 1..Len(rows) |-> rows[Len(rows) + 1 - i]]

\* mutant: the trend query takes the cost of goods from the sale price
LabelledSales_cost_is_price(d) ==
    LET joined == SelectSeq(d.sales, LAMBDA s : \E p \in d.products : p.id = s.product_id)
    IN  [i \in 1..Len(joined) |->
            [quantity |-> joined[i].quantity, sale_price |-> joined[i].sale_price,
             period |-> Period(isoformat(joined[i].sale_date)),
             cost |-> joined[i].sale_price]]

\* sales JOIN products, with the label of each sale
LabelledSales(d) ==
    LET joined == SelectSeq(d.sales, LAMBDA s : \E p \in d.products : p.id = s.product_id)
    IN  [i \in 1..Len(joined) |->
            [quantity |-> joined[i].quantity, sale_price |-> joined[i].sale_price,
             period |-> Period(isoformat(joined[i].sale_date)),
             cost |-> TheRow({p \in d.products : p.id = joined[i].product_id}).cost]]

\* get_monthly_trends: the sums per label (GROUP BY period), the `months`
\* latest labels, oldest first; vat and income_tax are in hundredths
get_monthly_trends(d, months) ==
    LET sales == LabelledSales(d)
        periods == {sales[i].period : i \in 1..Len(sales)}
        rows == Reversed(Limit(PeriodsDesc(periods), months))
        rates == get_tax_rates(d)
        group(period) == SelectSeq(sales, LAMBDA s : s.period = period)
        revenue(period) == OrZero(SqlSum(group(period), SumRevenue(group(period))))
        cogs(period) == OrZero(SqlSum(group(period), SumCogs(group(period))))
        gross(period) == revenue(period) - cogs(period)
    IN  [i \in 1..Len(rows) |->
            [period |-> rows[i],
             revenue |-> revenue(rows[i]),
             gross_profit |-> gross(rows[i]),
             vat |-> revenue(rows[i]) * rates.vat_rate,
             income_tax |-> Max(gross(rows[i]), 0) * rates.income_tax_rate]]

----------------------------------------------------------------------------
(* Sync documents, continued *)


ProductCells(p) ==
    [product_code |-> p.product_code, name |-> p.name, cost |-> Num(p.cost),
     price |-> Num(p.price), stock |-> Num(p.stock),
     reorder_level |-> Num(p.reorder_level)]

SaleCells(s) ==
    [product_code |-> s.product_code, name |-> s.name,
     quantity |-> Num(s.quantity), sale_price |-> Num(s.sale_price),
     sale_date |-> s.sale_date]

TaxCells(t) == [vat_rate |-> Num(t.vat_rate), income_tax_rate |-> Num(t.income_tax_rate)]

build_frames(d) ==
    LET products == fetch_products(d)
        sales == fetch_all_sales(d)
    IN  Frames(Sheet([i \in 1..Len(products) |-> ProductCells(products[i])]),
               Sheet([i \in 1..Len(sales) |-> SaleCells(sales[i])]),
               Sheet(<<TaxCells(get_tax_rates(d))>>))

\* what pandas holds for a blank cell
NaN == "NaN"

\* a text cell as read back from a workbook: an empty string is a blank cell
BlankToNaN(text) == IF text = "" THEN NaN ELSE text

\* pd.read_excel(sheet_name=None): one frame per sheet of the workbook; the
\* numbers and the non-empty texts come back as written
read_excel(file) ==
    LET cells(sheet) ==
            [present |-> sheet.present,
             rows |-> [i \in 1..Len(sheet.rows) |->
                         [sheet.rows[i] EXCEPT !.name = BlankToNaN(@)]]]
    IN  Frames(cells(file.frames.products), cells(file.frames.sales),
               file.frames.tax_settings)

\* frame.fillna(0): a missing name becomes the number 0 (0.0 when the whole
\* column is missing, which makes it a float column), which SQLite stores in
\* the TEXT column as '0' ('0.0')
fillna(sheet) ==
    LET zero == IF \A i \in 1..Len(sheet.rows) : sheet.rows[i].name = NaN
                THEN "0.0" ELSE "0"
    IN  [present |-> sheet.present,
         rows |-> [i \in 1..Len(sheet.rows) |->
                     IF sheet.rows[i].name = NaN
                     THEN [sheet.rows[i] EXCEPT !.name = zero]
                     ELSE sheet.rows[i]]]

\* import_from_tsv groups the lines by table: a table with no line has no frame
TsvTable(sheet) == IF sheet.present /\ sheet.rows # <<>> THEN sheet ELSE NoSheet
read_tsv(file) ==
    Frames(TsvTable(file.frames.products), TsvTable(file.frames.sales),
           TsvTable(file.frames.tax_settings))

\* mutant: only the workbook is rewritten, the TSV file is left as it was
export_documents_excel_only(d, excel, tsv, fault) ==
    LET frames == build_frames(d)
    IN  IF fault = "excel" THEN [excel |-> excel, tsv |-> tsv, result |-> "IOError"]
        ELSE IF fault = "tsv"
        THEN [excel |-> File(frames), tsv |-> tsv, result |-> "IOError"]
        ELSE [excel |-> File(frames), tsv |-> tsv, result |-> "ok"]

\* export_documents: the workbook is written first, then the TSV; a write to a
\* file that cannot be opened raises and leaves that file as it was
export_documents(d, excel, tsv, fault) ==
    LET frames == build_frames(d)
    IN  IF fault = "excel" THEN [excel |-> excel, tsv |-> tsv, result |-> "IOError"]
        ELSE IF fault = "tsv"
        THEN [excel |-> File(frames), tsv |-> tsv, result |-> "IOError"]
        ELSE [excel |-> File(frames), tsv |-> File(frames), result |-> "ok"]

StepFault(fault, step) == IF fault = step THEN 1 ELSE 0

\* mutant: the sales set is applied before the products set
apply_frames_sales_first(d, excel, tsv, frames, fault) ==
    LET r1 == IF frames.sales.present
              THEN replace_sales(d, fillna(frames.sales).rows, StepFault(fault, "sales"))
              ELSE [db |-> d, result |-> "ok"]
        r2 == IF frames.products.present
              THEN bulk_upsert_products(r1.db, fillna(frames.products).rows,
                                        StepFault(fault, "products"))
              ELSE [db |-> r1.db, result |-> "ok"]
        r3 == IF frames.tax_settings.present /\ frames.tax_settings.rows # <<>>
              THEN apply_tax_frame(r2.db, frames.tax_settings.rows[1], StepFault(fault, "tax"))
              ELSE [db |-> r2.db, result |-> "ok"]
        r4 == export_documents(r3.db, excel, tsv, fault)
        out(dd, e, t, result, step) ==
            [db |-> dd, excel |-> e, tsv |-> t, result |-> result, step |-> step]
    IN  IF r1.result # "ok" THEN out(r1.db, excel, tsv, r1.result, "sales")
        ELSE IF r2.result # "ok" THEN out(r2.db, excel, tsv, r2.result, "products")
        ELSE IF r3.result # "ok" THEN out(r3.db, excel, tsv, r3.result, "tax")
        ELSE IF r4.result # "ok" THEN out(r3.db, r4.excel, r4.tsv, r4.result, "export")
        ELSE out(r3.db, r4.excel, r4.tsv, "ok", "")

\* _apply_frames: three separately committed steps, then the re-export; the
\* first step that raises ends the import
apply_frames(d, excel, tsv, frames, fault) ==
    LET r1 == IF frames.products.present
              THEN bulk_upsert_products(d, fillna(frames.products).rows,
                                        StepFault(fault, "products"))
              ELSE [db |-> d, result |-> "ok"]
        r2 == IF frames.sales.present
              THEN replace_sales(r1.db, fillna(frames.sales).rows,
                                 StepFault(fault, "sales"))
              ELSE [db |-> r1.db, result |-> "ok"]
        r3 == IF frames.tax_settings.present /\ frames.tax_settings.rows # <<>>
              THEN apply_tax_frame(r2.db, frames.tax_settings.rows[1], StepFault(fault, "tax"))
              ELSE [db |-> r2.db, result |-> "ok"]
        r4 == export_documents(r3.db, excel, tsv, fault)
        out(dd, e, t, result, step) ==
            [db |-> dd, excel |-> e, tsv |-> t, result |-> result, step |-> step]
    IN  IF r1.result # "ok" THEN out(r1.db, excel, tsv, r1.result, "products")
        ELSE IF r2.result # "ok" THEN out(r2.db, excel, tsv, r2.result, "sales")
        ELSE IF r3.result # "ok" THEN out(r3.db, excel, tsv, r3.result, "tax")
        ELSE IF r4.result # "ok" THEN out(r3.db, r4.excel, r4.tsv, r4.result, "export")
        ELSE out(r3.db, r4.excel, r4.tsv, "ok", "")

\* the steps of an import that run for these frames (a fault can only hit those)
FaultApplies(frames, fault) ==
    CASE fault = "products" -> frames.products.present /\ frames.products.rows # <<>>
      [] fault = "sales" -> frames.sales.present
      [] fault = "tax" -> frames.tax_settings.present /\ frames.tax_settings.rows # <<>>
      [] OTHER -> TRUE

import_from_excel(d, excel, tsv, file, fault) ==
    IF ~file.exists
    THEN [db |-> d, excel |-> excel, tsv |-> tsv, result |-> "NotFound", step |-> "open"]
    ELSE apply_frames(d, excel, tsv, read_excel(file), fault)

\* mutant: a missing file is read as a document with no record set
import_from_tsv_reads_missing(d, excel, tsv, file, fault) ==
    apply_frames(d, excel, tsv, read_tsv(file), fault)

import_from_tsv(d, excel, tsv, file, fault) ==
    IF ~file.exists
    THEN [db |-> d, excel |-> excel, tsv |-> tsv, result |-> "NotFound", step |-> "open"]
    ELSE apply_frames(d, excel, tsv, read_tsv(file), fault)

----------------------------------------------------------------------------
(* Calls of the single-threaded desktop application: one handler at a time *)

NoCall == [op |-> "none", code |-> "", qty |-> 0, result |-> "", step |-> "",
           revenue |-> 0, cogs |-> 0, doc |-> NoFile, args |-> <<>>, report |-> <<>>]

\* what the last call was and what it reported to its caller; doc is the
\* document (rows or file) the call was given, if any; args and report are
\* the arguments of a report and the rows it returned
Call(op, code, qty, result) ==
    [op |-> op, code |-> code, qty |-> qty, result |-> result, step |-> "",
     revenue |-> 0, cogs |-> 0, doc |-> NoFile, args |-> <<>>, report |-> <<>>]

Idle == [pc |-> "idle"]

\* DatabaseManager.__init__ opens the file at db_path and _initialize creates
\* only what is missing: a session starts on a new store or on the ledger an
\* earlier session left.  The stored ledger here is the one left by
\* add_product(P1) with the name left empty, add_product(P2), restock(P2, 1),
\* record_sale(P2, 1).
StoredLedger ==
    LET s1 == add_product(EmptyDb, "P1", "", 1, 2, 1, 0, 0).db
        s2 == add_product(s1, "P2", "n", 2, 1, 1, 0, 0).db
        s3 == restock(s2, "P2", 1, 0).db
    IN  record_sale(s3, "P2", 1, 0).db

Init ==
    /\ today = SessionDay
    /\ db \in {EmptyDb, StoredLedger}
    /\ excel_doc = NoFile
    /\ tsv_doc = NoFile
    /\ last = NoCall
    /\ req = [t \in Threads |-> Idle]
    /\ nops = 0

\* the application is started again on the database file it left:
\* DatabaseManager.__init__ runs _initialize on it
Reopen ==
    /\ nops < MaxOps
    /\ db' = initialize(db)
    /\ last' = Call("initialize", "", 0, "ok")
    /\ nops' = nops + 1
    /\ UNCHANGED <<excel_doc, tsv_doc, req, today>>

AddProduct ==
    \E code \in Codes, name \in Names, cp \in CostPrice, stock \in StockArgs,
       reorder_level \in ReorderArgs, fault \in 0..2 :
        /\ nops < MaxOps
        /\ fault <= Len(add_product_drafts(db, code, name, cp[1], cp[2], stock, reorder_level))
        /\ LET r == add_product(db, code, name, cp[1], cp[2], stock, reorder_level, fault)
           IN  /\ db' = r.db
               /\ last' = Call("add_product", code, stock, r.result)
        /\ nops' = nops + 1
        /\ UNCHANGED <<excel_doc, tsv_doc, req, today>>

Restock ==
    \E code \in Codes, quantity \in QtyArgs, fault \in 0..3 :
        /\ nops < MaxOps
        /\ LET r == restock(db, code, quantity, fault)
           IN  /\ db' = r.db
               /\ last' = Call("restock", code, quantity, r.result)
        /\ nops' = nops + 1
        /\ UNCHANGED <<excel_doc, tsv_doc, req, today>>

RecordSale ==
    \E code \in Codes, quantity \in QtyArgs, fault \in 0..4 :
        /\ nops < MaxOps
        /\ LET r == record_sale(db, code, quantity, fault)
           IN  /\ db' = r.db
               /\ last' = [Call("record_sale", code, quantity, r.result)
                              EXCEPT !.revenue = r.revenue, !.cogs = r.cogs]
        /\ nops' = nops + 1
        /\ UNCHANGED <<excel_doc, tsv_doc, req, today>>

UpdateTaxRates ==
    \E vat_rate \in VatArgs, income_tax_rate \in IncomeArgs, fault \in 0..1 :
        /\ nops < MaxOps
        /\ LET r == update_tax_rates(db, vat_rate, income_tax_rate, fault)
           IN  /\ db' = r.db
               /\ last' = Call("update_tax_rates", "", 0, r.result)
        /\ nops' = nops + 1
        /\ UNCHANGED <<excel_doc, tsv_doc, req, today>>

\* mutant: the export tidies the sales table, deleting the rows it does not list
ExportDocuments_purges_unlisted ==
    \E fault \in {"none", "excel", "tsv"} :
        /\ nops < MaxOps
        /\ LET r == export_documents(db, excel_doc, tsv_doc, fault)
           IN  /\ excel_doc' = r.excel
               /\ tsv_doc' = r.tsv
               /\ last' = Call("export_documents", "", 0, r.result)
        /\ db' = [db EXCEPT !.sales =
                     SelectSeq(@, LAMBDA s : \E p \in db.products : p.id = s.product_id)]
        /\ nops' = nops + 1
        /\ UNCHANGED <<req, today>>

ExportDocuments ==
    \E fault \in {"none", "excel", "tsv"} :
        /\ nops < MaxOps
        /\ LET r == export_documents(db, excel_doc, tsv_doc, fault)
           IN  /\ excel_doc' = r.excel
               /\ tsv_doc' = r.tsv
               /\ last' = Call("export_documents", "", 0, r.result)
        /\ nops' = nops + 1
        /\ UNCHANGED <<db, req, today>>

\* Documents an operator may hand to an import besides the sync files
DocProduct(code, cost, price, stock) ==
    [product_code |-> code, name |-> "n", cost |-> Num(cost), price |-> Num(price),
     stock |-> stock, reorder_level |-> Num(0)]
DocSale(code, quantity, sale_price) ==
    [product_code |-> code, name |-> "n", quantity |-> quantity,
     sale_price |-> Num(sale_price)]
DocTax(vat_rate, income_tax_rate) ==
    [vat_rate |-> vat_rate, income_tax_rate |-> Num(income_tax_rate)]

EditedDocs ==
    { \* a product new to every ledger, sales for it, for a code no product
      \* has and for P1, two tax records
      Frames(Sheet(<<DocProduct("P3", 1, 2, Num(1))>>),
             Sheet(<<DocSale("P3", Num(1), 2), DocSale("P9", Num(1), 2),
                     DocSale("P1", Num(1), 2)>>),
             Sheet(<<DocTax(Num(20), 10), DocTax(Num(10), 10)>>)),
      \* the second product row has a non-numeric stock
      Frames(Sheet(<<DocProduct("P1", 2, 1, Num(1)), DocProduct("P2", 1, 2, Text)>>),
             Sheet(<<>>),
             Sheet(<<DocTax(Num(20), 10)>>)),
      \* the second sales row has a non-numeric quantity
      Frames(Sheet(<<DocProduct("P2", 1, 2, Num(1))>>),
             Sheet(<<DocSale("P2", Num(1), 2), DocSale("P2", Text, 2)>>),
             Sheet(<<DocTax(Num(20), 10)>>)),
      \* the VAT rate is not a number
      Frames(Sheet(<<DocProduct("P2", 1, 2, Num(1))>>),
             Sheet(<<DocSale("P2", Num(1), 2)>>),
             Sheet(<<DocTax(Text, 10)>>)),
      \* no sales set; a negative stock; a tax record without the vat_rate column
      Frames(Sheet(<<DocProduct("P1", 1, 2, Num(-1)), DocProduct("P2", 2, 1, Num(1))>>),
             NoSheet,
             Sheet(<<[income_tax_rate |-> Num(10)]>>)),
      \* a sales set and a tax_settings set with no record
      Frames(Sheet(<<DocProduct("P1", 1, 2, Num(1))>>), Sheet(<<>>), Sheet(<<>>)) }

BulkUpsertProducts ==
    \E f \in EditedDocs, fault \in 0..2 :
        /\ nops < MaxOps
        /\ fault <= Len(f.products.rows)
        /\ LET r == bulk_upsert_products(db, f.products.rows, fault)
           IN  /\ db' = r.db
               /\ last' = [Call("bulk_upsert_products", "", 0, r.result)
                              EXCEPT !.doc = File(f)]
        /\ nops' = nops + 1
        /\ UNCHANGED <<excel_doc, tsv_doc, req, today>>

ReplaceSales ==
    \E f \in EditedDocs, fault \in 0..1 :
        /\ nops < MaxOps
        /\ f.sales.present
        /\ LET r == replace_sales(db, f.sales.rows, fault)
           IN  /\ db' = r.db
               /\ last' = [Call("replace_sales", "", 0, r.result)
                              EXCEPT !.doc = File(f)]
        /\ nops' = nops + 1
        /\ UNCHANGED <<excel_doc, tsv_doc, req, today>>

ImportFiles == {excel_doc, tsv_doc} \cup {File(f) : f \in EditedDocs}
ImportFaults == {"none", "products", "sales", "tax", "excel", "tsv"}

ImportCall(op, file, r) ==
    [Call(op, "", 0, r.result) EXCEPT !.step = r.step, !.doc = file]

ImportFromExcel ==
    \E file \in ImportFiles, fault \in ImportFaults :
        /\ nops < MaxOps
        /\ FaultApplies(read_excel(file), fault)
        /\ LET r == import_from_excel(db, excel_doc, tsv_doc, file, fault)
           IN  /\ db' = r.db
               /\ excel_doc' = r.excel
               /\ tsv_doc' = r.tsv
               /\ last' = ImportCall("import_from_excel", file, r)
        /\ nops' = nops + 1
        /\ UNCHANGED <<req, today>>

ImportFromTsv ==
    \E file \in ImportFiles, fault \in ImportFaults :
        /\ nops < MaxOps
        /\ FaultApplies(read_tsv(file), fault)
        /\ LET r == import_from_tsv(db, excel_doc, tsv_doc, file, fault)
           IN  /\ db' = r.db
               /\ excel_doc' = r.excel
               /\ tsv_doc' = r.tsv
               /\ last' = ImportCall("import_from_tsv", file, r)
        /\ nops' = nops + 1
        /\ UNCHANGED <<req, today>>

Next ==
    \/ Reopen
    \/ AddProduct
    \/ Restock
    \/ RecordSale
    \/ UpdateTaxRates
    \/ BulkUpsertProducts
    \/ ReplaceSales
    \/ ExportDocuments
    \/ ImportFromExcel
    \/ ImportFromTsv

Spec == Init /\ [][Next]_vars

----------------------------------------------------------------------------
(* Reports over a ledger kept across days.  The ledger of the first day is    *)
(* new or the stored one (written on that day); days pass between the calls.  *)
(* A report counts as a call of the session.                                  *)

\* the months a report is asked for
Months == {<<2023, 12>>, <<2024, 1>>, <<2024, 2>>}
\* the number of periods a trend is asked for
PeriodArgs == {1, 2}

\* a ledger with two products, of which P1 (cost 1, price 2) was sold once
SoldLedger ==
    LET s1 == add_product(EmptyDb, "P1", "", 1, 2, 1, 0, 0).db
        s2 == add_product(s1, "P2", "n", 2, 1, 1, 0, 0).db
    IN  record_sale(s2, "P1", 1, 0).db

InitReport ==
    /\ today = Days[1]
    /\ db \in {EmptyDb, SoldLedger}
    /\ excel_doc = NoFile
    /\ tsv_doc = NoFile
    /\ last = NoCall
    /\ req = [t \in Threads |-> Idle]
    /\ nops = 0

\* dt.date.today() moves on to the next of the days
DayPasses ==
    \E i \in 1..(Len(Days) - 1) :
        /\ today = Days[i]
        /\ today' = Days[i + 1]
        /\ UNCHANGED <<db, excel_doc, tsv_doc, last, req, nops>>

\* update_taxes of the web front end (save_tax_rates of the desktop one):
\* float() of the two fields, handed to update_tax_rates as they are
FormIncomeArgs == {-10, 10}

UpdateTaxes ==
    \E vat_rate \in VatArgs, income_tax_rate \in FormIncomeArgs, fault \in 0..1 :
        /\ nops < MaxOps
        /\ LET r == update_tax_rates(db, vat_rate, income_tax_rate, fault)
           IN  /\ db' = r.db
               /\ last' = Call("update_tax_rates", "", 0, r.result)
        /\ nops' = nops + 1
        /\ UNCHANGED <<excel_doc, tsv_doc, req, today>>

MonthlySummary ==
    \E ym \in Months :
        /\ nops < MaxOps
        /\ last' = [Call("get_monthly_summary", "", 0, "ok")
                       EXCEPT !.args = ym,
                              !.report = <<get_monthly_summary(db, ym[1], ym[2])>>]
        /\ nops' = nops + 1
        /\ UNCHANGED <<db, excel_doc, tsv_doc, req, today>>

MonthlyTrends ==
    \E months \in PeriodArgs :
        /\ nops < MaxOps
        /\ last' = [Call("get_monthly_trends", "", months, "ok")
                       EXCEPT !.args = <<months>>,
                              !.report = get_monthly_trends(db, months)]
        /\ nops' = nops + 1
        /\ UNCHANGED <<db, excel_doc, tsv_doc, req, today>>

ReportNext ==
    \/ DayPasses
    \/ AddProduct
    \/ Restock
    \/ RecordSale
    \/ UpdateTaxes
    \/ MonthlySummary
    \/ MonthlyTrends

SpecReport == InitReport /\ [][ReportNext]_vars

----------------------------------------------------------------------------
(* Requests of the threaded web front end.  A handler that calls restock or   *)
(* record_sale first reads the product through one connection (get_product)   *)
(* and then opens a second connection for its write transaction; requests of  *)
(* other threads can commit in between.  SQLite serialises the write           *)
(* transactions themselves.  The arguments are the valid ones (stock >= 0,    *)
(* quantity > 0).                                                             *)

WebStockArgs == 0..MaxQty
WebQtyArgs == 1..MaxQty

WebAddProduct ==
    \E t \in Threads, code \in Codes, name \in Names, cp \in CostPrice,
       stock \in WebStockArgs, reorder_level \in ReorderArgs :
        /\ nops < MaxOps
        /\ req[t].pc = "idle"
        /\ LET r == add_product(db, code, name, cp[1], cp[2], stock, reorder_level, 0)
           IN  /\ db' = r.db
               /\ last' = Call("add_product", code, stock, r.result)
        /\ nops' = nops + 1
        /\ UNCHANGED <<excel_doc, tsv_doc, req, today>>

\* record_sale up to the checks: lines 279-285
WebSaleRead ==
    \E t \in Threads, code \in Codes, quantity \in WebQtyArgs :
        /\ nops < MaxOps
        /\ req[t].pc = "idle"
        /\ LET found == get_product(db, code)
               check == record_sale_check(found, quantity)
           IN  IF check # "ok"
               THEN /\ last' = Call("record_sale", code, quantity, check)
                    /\ req' = req
               ELSE /\ req' = [req EXCEPT ![t] =
                               [pc |-> "record_sale", code |-> code,
                                quantity |-> quantity, product |-> TheRow(found)]]
                    /\ last' = last
        /\ nops' = nops + 1
        /\ UNCHANGED <<db, excel_doc, tsv_doc, today>>

\* record_sale from the second connection on: lines 286-313
WebSaleWrite ==
    \E t \in Threads :
        /\ req[t].pc = "record_sale"
        /\ LET r == record_sale_txn(db, req[t].product, req[t].quantity, 0)
           IN  /\ db' = r.db
               /\ last' = [Call("record_sale", req[t].code, req[t].quantity, r.result)
                              EXCEPT !.revenue = sale_revenue(req[t].product, req[t].quantity),
                                     !.cogs = sale_cogs(req[t].product, req[t].quantity)]
        /\ req' = [req EXCEPT ![t] = Idle]
        /\ UNCHANGED <<excel_doc, tsv_doc, nops, today>>

\* restock up to the check: lines 244-246
WebRestockRead ==
    \E t \in Threads, code \in Codes, quantity \in WebQtyArgs :
        /\ nops < MaxOps
        /\ req[t].pc = "idle"
        /\ LET found == get_product(db, code)
           IN  IF found = {}
               THEN /\ last' = Call("restock", code, quantity, "NotFound")
                    /\ req' = req
               ELSE /\ req' = [req EXCEPT ![t] =
                               [pc |-> "restock", code |-> code,
                                quantity |-> quantity, product |-> TheRow(found)]]
                    /\ last' = last
        /\ nops' = nops + 1
        /\ UNCHANGED <<db, excel_doc, tsv_doc, today>>

\* restock from the second connection on: lines 247-255
WebRestockWrite ==
    \E t \in Threads :
        /\ req[t].pc = "restock"
        /\ LET r == restock_txn(db, req[t].product, req[t].code, req[t].quantity, 0)
           IN  /\ db' = r.db
               /\ last' = Call("restock", req[t].code, req[t].quantity, r.result)
        /\ req' = [req EXCEPT ![t] = Idle]
        /\ UNCHANGED <<excel_doc, tsv_doc, nops, today>>

\* generate_report: get_monthly_summary up to its first query (lines 360-380).
\* `seen` keeps the committed states the call has read from.
WebSummaryBegin ==
    \E t \in Threads, ym \in Months :
        /\ nops < MaxOps
        /\ req[t].pc = "idle"
        /\ req' = [req EXCEPT ![t] =
                      [pc |-> "get_monthly_summary", args |-> ym,
                       read |-> <<SummaryRead(db, ym[1], ym[2], 1)>>, seen |-> {db}]]
        /\ nops' = nops + 1
        /\ UNCHANGED <<db, excel_doc, tsv_doc, last, today>>

\* the next query of a summary under way (lines 382-410); after the last one
\* the dictionary is built and returned
WebSummaryRead ==
    \E t \in Threads :
        /\ req[t].pc = "get_monthly_summary"
        /\ LET ym == req[t].args
               k == Len(req[t].read) + 1
               read == Append(req[t].read, SummaryRead(db, ym[1], ym[2], k))
           IN  IF k < Len(SummaryReads)
               THEN /\ req' = [req EXCEPT ![t].read = read, ![t].seen = @ \cup {db}]
                    /\ last' = last
               ELSE /\ req' = [req EXCEPT ![t] = Idle]
                    /\ last' = [Call("get_monthly_summary", "", 0, "ok")
                                   EXCEPT !.args = ym, !.report = <<Summarise(read)>>]
        /\ UNCHANGED <<db, excel_doc, tsv_doc, nops, today>>

\* generate_dummy_data.  The sample products (five in the source, with stocks of
\* 5 to 20) are added with add_product; then comes a run of sale attempts (240
\* to 720 in the source), each for a sample code, a quantity and a day up to
\* today drawn at random.  Every add_product and every attempt commits on its
\* own; the request is taken here without another request in between.
SampleProducts ==
    <<[code |-> "P1", name |-> "n", cost |-> 1, price |-> 2,
       stock |-> MaxQty + 1, reorder_level |-> 0],
      [code |-> "P2", name |-> "n", cost |-> 1, price |-> 2,
       stock |-> MaxQty + 1, reorder_level |-> 0]>>
DummyAttempts == 2
DummyQtyArgs == 1..MaxQty
PastDays == {Days[i] : i \in {j \in 1..Len(Days) : \E k \in j..Len(Days) : Days[k] = today}}

RECURSIVE SamplesAddedUpTo(_, _)
SamplesAddedUpTo(d, n) ==
    IF n = 0 THEN d
    ELSE LET p == SampleProducts[n]
         IN  add_product(SamplesAddedUpTo(d, n - 1), p.code, p.name, p.cost, p.price,
                         p.stock, p.reorder_level, 0).db

\* one sale attempt of generate_dummy_data (lines 151-175): the stock is
\* decreased, the sale and the cash receipt are inserted under the past date,
\* and the transaction is committed; nothing is written when the product is
\* missing or its stock is short
dummy_sale(d, code, quantity, sale_date) ==
    LET found == get_product(d, code)
    IN  IF found = {} \/ TheRow(found).stock < quantity THEN d
        ELSE LET product == TheRow(found)
             IN  [d EXCEPT
                    !.products = {IF p.id = product.id
                                  THEN [p EXCEPT !.stock = @ - quantity] ELSE p : p \in @},
                    !.sales = Append(@, [product_id |-> product.id, quantity |-> quantity,
                                         sale_price |-> product.price,
                                         sale_date |-> sale_date]),
                    !.cash_movements =
                        Append(@, [description |-> <<product.name, "sale">>,
                                   amount |-> product.price * quantity,
                                   movement_type |-> "IN",
                                   movement_date |-> sale_date])]

\* the ledger after the first n of the sale attempts
RECURSIVE DummySoldUpTo(_, _, _)
DummySoldUpTo(d, attempts, n) ==
    IF n = 0 THEN d
    ELSE dummy_sale(DummySoldUpTo(d, attempts, n - 1),
                    attempts[n].code, attempts[n].quantity, attempts[n].sale_date)

\* the whole request: the sample products, then the sale attempts
WebGenerateDummyData ==
    \E t \in Threads,
       attempts \in [1..DummyAttempts ->
                        [code : {SampleProducts[i].code : i \in 1..Len(SampleProducts)},
                         quantity : DummyQtyArgs, sale_date : PastDays]] :
        /\ nops < MaxOps
        /\ req[t].pc = "idle"
        /\ db' = DummySoldUpTo(SamplesAddedUpTo(db, Len(SampleProducts)),
                               attempts, DummyAttempts)
        /\ last' = Call("generate_dummy_data", "", 0, "ok")
        /\ nops' = nops + 1
        /\ UNCHANGED <<excel_doc, tsv_doc, req, today>>

WebNext ==
    \/ WebGenerateDummyData
    \/ WebAddProduct
    \/ WebSaleRead
    \/ WebSaleWrite
    \/ WebRestockRead
    \/ WebRestockWrite
    \/ WebSummaryBegin
    \/ WebSummaryRead

SpecWeb == Init /\ [][WebNext]_vars

----------------------------------------------------------------------------
(* Properties *)

\* the step just taken is a call `op`
Called(op) == nops' = nops + 1 /\ last'.op = op
CalledWith(op, code, qty) == Called(op) /\ last'.code = code /\ last'.qty = qty

DocsUnchanged == excel_doc' = excel_doc /\ tsv_doc' = tsv_doc

Failed(result) == result \in {"IOError", "InvalidInput"}

\* C1: in every reachable state every product's stock is >= 0, whatever
\* integer arguments the calls were given.
C1_StockNeverNegative == \A p \in db.products : p.stock >= 0

\* C2: with concurrent record_sale requests (and valid arguments only) no
\* interleaving commits a sale that exceeds the stock: the stock of every
\* product stays >= 0.
C2_NoOversellUnderConcurrency == \A p \in db.products : p.stock >= 0

\* C3: a call of add_product, restock, record_sale, bulk_upsert_products or
\* replace_sales that fails after one of its writes and before its commit
\* leaves every table (and the sync documents) exactly as before the call.
C3_FailedCallChangesNothing ==
    [][\A op \in {"add_product", "restock", "record_sale",
                  "bulk_upsert_products", "replace_sales"} :
          (Called(op) /\ Failed(last'.result)) => (db' = db /\ DocsUnchanged)]_vars

\* a bulk upsert raised on its second row, after the first row was written
C3_Witness ==
    /\ last.op = "bulk_upsert_products"
    /\ last.result = "InvalidInput"
    /\ db.products # {}

\* C4: an import that fails at any of its steps leaves the store exactly as it
\* was before the import.
C4_FailedImportChangesNothing ==
    [][\A op \in {"import_from_excel", "import_from_tsv"} :
          (Called(op) /\ last'.result # "ok") => db' = db]_vars

\* C5: record_sale(code, q) on an existing product with q > stock reports
\* InsufficientStock and changes nothing: no sale, movement or cash row, and
\* the same stock.
C5_InsufficientStockChangesNothing ==
    [][\A code \in Codes, q \in QtyArgs :
          (/\ CalledWith("record_sale", code, q)
           /\ get_product(db, code) # {}
           /\ q > StockOf(db, code))
          => (last'.result = "InsufficientStock" /\ db' = db /\ DocsUnchanged)]_vars

C5_Witness ==
    /\ last.op = "record_sale"
    /\ last.result = "InsufficientStock"
    /\ get_product(db, last.code) # {}
    /\ last.qty > StockOf(db, last.code)

\* C6: restock and record_sale with a product code that does not exist report
\* NotFound, whatever the quantity, and change nothing.
C6_UnknownCodeChangesNothing ==
    [][\A op \in {"restock", "record_sale"}, code \in Codes, q \in QtyArgs :
          (CalledWith(op, code, q) /\ get_product(db, code) = {})
          => (last'.result = "NotFound" /\ db' = db /\ DocsUnchanged)]_vars

C6_Witness ==
    /\ last.op = "restock"
    /\ last.result = "NotFound"
    /\ get_product(db, last.code) = {}
    /\ db.products # {}

\* C7: restock and record_sale called with quantity <= 0 are rejected and
\* write nothing.
C7_NonPositiveQuantityRejected ==
    [][\A op \in {"restock", "record_sale"} :
          (Called(op) /\ last'.qty <= 0) => (last'.result # "ok" /\ db' = db)]_vars

C9_SaleReturn ==
    [][\A code \in Codes, q \in QtyArgs :
          (CalledWith("record_sale", code, q) /\ last'.result = "ok")
          => LET p == TheRow(get_product(db, code))
             IN  /\ last'.revenue = p.price * q
                 /\ last'.cogs = p.cost * q
                 /\ Len(db'.cash_movements) = Len(db.cash_movements) + 1
                 /\ last'.revenue = db'.cash_movements[Len(db'.cash_movements)].amount]_vars

C9_Witness ==
    /\ last.op = "record_sale"
    /\ last.result = "ok"
    /\ last.revenue > 0
    /\ last.revenue # last.cogs

ProductEntity(p) ==
    [product_code |-> p.product_code, name |-> p.name, cost |-> p.cost,
     price |-> p.price, stock |-> p.stock, reorder_level |-> p.reorder_level]

ProductEntities(d) == {ProductEntity(p) : p \in d.products}

\* the ledger as its listings show it: products, movements and cash rows
\* without surrogate keys, sales as listed by fetch_all_sales
LedgerListing(d) ==
    [products |-> ProductEntities(d),
     inventory_movements |->
        [i \in 1..Len(d.inventory_movements) |->
            [movement_type |-> d.inventory_movements[i].movement_type,
             quantity |-> d.inventory_movements[i].quantity,
             unit_cost |-> d.inventory_movements[i].unit_cost]],
     sales |-> fetch_all_sales(d),
     cash_movements |-> d.cash_movements,
     tax_settings |-> d.tax_settings]

\* C11: add_product called a second time, right after a successful
\* add_product with the same (code, name, cost, price, stock, reorder_level),
\* leaves the whole ledger (products, inventory movements, sales as listed,
\* cash movements) as the first call left it.  Stated for the valid stocks
\* (stock >= 0).
C11_UpsertIdempotent ==
    [][\A code \in Codes, stock \in {k \in StockArgs : k >= 0} :
          (/\ last.op = "add_product" /\ last.result = "ok"
           /\ last.code = code /\ last.qty = stock
           /\ CalledWith("add_product", code, stock) /\ last'.result = "ok"
           /\ ProductEntities(db') = ProductEntities(db))
          => LedgerListing(db') = LedgerListing(db)]_vars

\* C12: a successful add_product never appends a cash movement (so the cash
\* balance stays); when it creates the product it appends exactly one IN
\* movement (quantity = stock, unit_cost = cost) if stock > 0 and no movement
\* if stock = 0.
C12_CreationMovement ==
    [][\A code \in Codes, stock \in StockArgs :
          (CalledWith("add_product", code, stock) /\ last'.result = "ok")
          => /\ db'.cash_movements = db.cash_movements
             /\ get_cash_balance(db') = get_cash_balance(db)
             /\ (get_product(db, code) = {} /\ stock > 0)
                => LET p == TheRow(get_product(db', code))
                   IN  db'.inventory_movements = Append(db.inventory_movements,
                          [product_id |-> p.id, movement_type |-> "IN",
                           quantity |-> stock, unit_cost |-> p.cost,
                           movement_date |-> today])
             /\ (get_product(db, code) = {} /\ stock = 0)
                => db'.inventory_movements = db.inventory_movements]_vars

\* a second product has just been created with a positive stock (no row was
\* ever replaced: the key sequence equals the number of rows)
C12_Witness ==
    /\ last.op = "add_product"
    /\ last.result = "ok"
    /\ last.qty > 0
    /\ Cardinality(db.products) = 2
    /\ db.product_seq = 2
    /\ TheRow(get_product(db, last.code)).id = 2

\* every sale and every inventory movement points at a row of products
ReferencesExist(d) ==
    /\ \A i \in 1..Len(d.sales) :
          \E p \in d.products : p.id = d.sales[i].product_id
    /\ \A i \in 1..Len(d.inventory_movements) :
          \E p \in d.products : p.id = d.inventory_movements[i].product_id

\* the sales listing without the product's name
ListedSales(d) ==
    LET sales == fetch_all_sales(d)
    IN  [i \in 1..Len(sales) |->
            [product_code |-> sales[i].product_code, quantity |-> sales[i].quantity,
             sale_price |-> sales[i].sale_price]]

\* C13: add_product on an existing product keeps the product's identity: the
\* sales and movements that referenced an existing product before the call
\* still do after it, and the sales recorded before the call are still in the
\* sales listing and in the revenue of the monthly summary.  Stated for the
\* valid stocks (stock >= 0).
C13_UpdateKeepsIdentity ==
    [][\A code \in Codes, stock \in {k \in StockArgs : k >= 0} :
          (CalledWith("add_product", code, stock) /\ last'.result = "ok")
          => /\ ReferencesExist(db) => ReferencesExist(db')
             /\ ListedSales(db') = ListedSales(db)
             /\ get_monthly_summary(db', today[1], today[2]).revenue =
                   get_monthly_summary(db, today[1], today[2]).revenue]_vars

\* the rows of a sales set whose product code is in the ledger d, as Sale
\* records bound to the product with that code
RECURSIVE KnownSales(_, _)
KnownSales(d, rows) ==
    IF rows = <<>> THEN <<>>
    ELSE LET r == Head(rows)
             owner == get_product(d, r.product_code)
         IN  (IF owner = {} THEN <<>>
              ELSE <<[product_id |-> TheRow(owner).id, quantity |-> r.quantity.val,
                      sale_price |-> r.sale_price.val, sale_date |-> SaleDate(r)]>>)
             \o KnownSales(d, Tail(rows))

\* C14: after a successful replace_sales(rows) the sales are exactly the rows
\* whose product code exists, each bound to the product with that code; the
\* old sales are gone, rows with an unknown code are skipped without failing,
\* and no other table changes.
C14_ReplaceSalesResult ==
    [][(Called("replace_sales") /\ last'.result = "ok")
          => /\ db'.sales = KnownSales(db, last'.doc.frames.sales.rows)
             /\ db' = [db EXCEPT !.sales = db'.sales]]_vars

\* the ledger had a sale and movements; the rows given held a code no product
\* has, which was skipped, and the other rows are the sales now
C14_Witness ==
    /\ last.op = "replace_sales"
    /\ last.result = "ok"
    /\ \E i \in 1..Len(last.doc.frames.sales.rows) :
          get_product(db, last.doc.frames.sales.rows[i].product_code) = {}
    /\ Len(db.sales) = 2
    /\ db.cash_movements # <<>>

\* the Product entity a products row describes
RowEntity(row) ==
    [product_code |-> row.product_code, name |-> row.name, cost |-> row.cost.val,
     price |-> row.price.val, stock |-> row.stock.val,
     reorder_level |-> row.reorder_level.val]

\* C15: a successful bulk_upsert_products(rows) sets, for each row, the
\* product with that code to the row's name, cost, price, stock and reorder
\* level, creating it if absent and keeping its key otherwise; it appends no
\* inventory movement and no cash movement (nor any sale), and every product
\* whose code is not in rows stays as it was.
C15_BulkUpsertEffect ==
    [][(Called("bulk_upsert_products") /\ last'.result = "ok")
          => LET rows == last'.doc.frames.products.rows
                 codes == {rows[i].product_code : i \in 1..Len(rows)}
             IN  /\ \A i \in 1..Len(rows) : RowEntity(rows[i]) \in ProductEntities(db')
                 /\ \A p \in db.products :
                       IF p.product_code \in codes
                       THEN \E q \in db'.products :
                               q.id = p.id /\ q.product_code = p.product_code
                       ELSE p \in db'.products
                 /\ {p.product_code : p \in db'.products} =
                       {p.product_code : p \in db.products} \cup codes
                 /\ Cardinality(db'.products) =
                       Cardinality({p.product_code : p \in db'.products})
                 /\ db'.inventory_movements = db.inventory_movements
                 /\ db'.cash_movements = db.cash_movements
                 /\ db'.sales = db.sales
                 /\ db'.tax_settings = db.tax_settings
                 /\ DocsUnchanged]_vars

\* a one-row bulk upsert has created the second product of the ledger, next
\* to a product that add_product had stored with its movement
C15_Witness ==
    /\ last.op = "bulk_upsert_products"
    /\ last.result = "ok"
    /\ Len(last.doc.frames.products.rows) = 1
    /\ Cardinality(db.products) = 2
    /\ db.product_seq = 2
    /\ Len(db.inventory_movements) = 1

\* C16: after a successful import_from_excel or import_from_tsv of a document
\* that has a sales set, the sales of the ledger are exactly that set (its
\* rows whose code the ledger knows once the products are applied): every
\* other sale is discarded, also when the set holds no record.
C16_ImportReplacesSales ==
    [][\A op \in {"import_from_excel", "import_from_tsv"} :
          (/\ Called(op) /\ last'.result = "ok"
           /\ last'.doc.frames.sales.present)
          => db'.sales = KnownSales(db', last'.doc.frames.sales.rows)]_vars

\* the product codes of a products set
DocCodes(frames) ==
    {frames.products.rows[i].product_code : i \in 1..Len(frames.products.rows)}

\* C17: when a successfully imported document defines a product that is new
\* to the ledger and holds sales for it, then after the import the new product
\* exists next to all previous products, each of those sales is in the ledger
\* bound to the new product, and the sales are exactly the document's (the
\* prior ones are discarded).
C17_ProductsBeforeSales ==
    [][\A op \in {"import_from_excel", "import_from_tsv"} :
          (Called(op) /\ last'.result = "ok")
          => LET f == last'.doc.frames
                 new == DocCodes(f) \ {p.product_code : p \in db.products}
                 forNew == {i \in 1..Len(f.sales.rows) : f.sales.rows[i].product_code \in new}
             IN  (forNew # {})
                 => /\ \A c \in new : get_product(db', c) # {}
                    /\ \A p \in db.products : get_product(db', p.product_code) # {}
                    /\ \A i \in forNew :
                          \E j \in 1..Len(db'.sales) :
                             db'.sales[j] =
                               [product_id |->
                                   TheRow(get_product(db', f.sales.rows[i].product_code)).id,
                                quantity |-> f.sales.rows[i].quantity.val,
                                sale_price |-> f.sales.rows[i].sale_price.val,
                                sale_date |-> SaleDate(f.sales.rows[i])]
                    /\ db'.sales = KnownSales(db', f.sales.rows)]_vars

\* an import added a third product to a ledger that held a sale of P2: the
\* sales are now the document's two (for the new product and for P1)
C17_Witness ==
    /\ last.op \in {"import_from_excel", "import_from_tsv"}
    /\ last.result = "ok"
    /\ Cardinality(db.products) = 3
    /\ db.cash_movements # <<>>
    /\ Len(db.sales) = 2
    /\ \E p \in db.products :
          /\ p.product_code \in DocCodes(last.doc.frames)
          /\ p.id = db.product_seq
          /\ db.sales[1].product_id = p.id

\* the rate a tax record gives for a column, `missing` if it lacks the column
RateOf(row, column, missing) ==
    IF column \in DOMAIN row THEN row[column].val ELSE missing

\* C18 as stated: after a successful import whose tax_settings set is not
\* empty the two rates are those of the first record, a rate the record does
\* not give keeping its stored value; with an absent or empty set the tax
\* settings are unchanged.
C18_FirstTaxRecordOrKept ==
    [][\A op \in {"import_from_excel", "import_from_tsv"} :
          (Called(op) /\ last'.result = "ok")
          => LET rows == last'.doc.frames.tax_settings.rows
             IN  IF rows # <<>>
                 THEN /\ get_tax_rates(db').vat_rate =
                            RateOf(rows[1], "vat_rate", get_tax_rates(db).vat_rate)
                      /\ get_tax_rates(db').income_tax_rate =
                            RateOf(rows[1], "income_tax_rate",
                                   get_tax_rates(db).income_tax_rate)
                 ELSE db'.tax_settings = db.tax_settings]_vars

\* C18, amended: after a successful import whose tax_settings set is not empty
\* the two rates are those of the first record (later records are ignored), a
\* rate whose column the record lacks being set to the default of 10 percent;
\* with an absent or empty set the tax settings are unchanged.
C18_FirstTaxRecord ==
    [][\A op \in {"import_from_excel", "import_from_tsv"} :
          (Called(op) /\ last'.result = "ok")
          => LET rows == last'.doc.frames.tax_settings.rows
             IN  IF rows # <<>>
                 THEN /\ get_tax_rates(db').vat_rate =
                            RateOf(rows[1], "vat_rate", MissingVat)
                      /\ get_tax_rates(db').income_tax_rate =
                            RateOf(rows[1], "income_tax_rate", MissingIncomeTax)
                 ELSE db'.tax_settings = db.tax_settings]_vars

\* an import applied the first of two tax records that differ in their VAT
\* rate
C18_Witness ==
    /\ last.op \in {"import_from_excel", "import_from_tsv"}
    /\ last.result = "ok"
    /\ Len(last.doc.frames.tax_settings.rows) = 2
    /\ last.doc.frames.tax_settings.rows[2].vat_rate.val # get_tax_rates(db).vat_rate
    /\ last.doc.frames.tax_settings.rows[1].vat_rate.val = get_tax_rates(db).vat_rate

\* C19: an import of either sync document, made while that document is the
\* export of the ledger as it stands (exported and not edited since), gives a
\* ledger with the same products (stock included) and tax settings, whose
\* listed sales are the exported ones, and with the same inventory movements
\* and cash movements.
C19_RoundTrip ==
    [][\A op \in {"import_from_excel", "import_from_tsv"} :
          (/\ Called(op) /\ last'.result = "ok"
           /\ last'.doc = (IF op = "import_from_excel" THEN excel_doc ELSE tsv_doc)
           /\ last'.doc = File(build_frames(db)))
          => /\ ProductEntities(db') = ProductEntities(db)
             /\ db'.tax_settings = db.tax_settings
             /\ fetch_all_sales(db') = fetch_all_sales(db)
             /\ db'.inventory_movements = db.inventory_movements
             /\ db'.cash_movements = db.cash_movements]_vars

\* C20: export_documents has no precondition on the ledger (it ends with
\* success or with an I/O error, never with a refusal) and leaves products,
\* inventory movements, sales, cash movements and tax settings as they were,
\* whether it succeeds or fails.
C20_ExportLeavesStore ==
    [][Called("export_documents")
          => /\ db' = db
             /\ last'.result \in {"ok", "IOError"}
             /\ last'.result = "ok"
                => (excel_doc' = File(build_frames(db)) /\ tsv_doc' = excel_doc')]_vars

\* an export failed on the second file, after the workbook was written, on a
\* ledger that holds a sale whose product row was replaced
C20_Witness ==
    /\ last.op = "export_documents"
    /\ last.result = "IOError"
    /\ excel_doc.exists
    /\ ~tsv_doc.exists
    /\ db.sales # <<>>
    /\ ~ReferencesExist(db)

\* the records a sheet of a document holds
RowSet(sheet) == {sheet.rows[i] : i \in 1..Len(sheet.rows)}

\* C21: after every successful import, from either format, both documents have
\* been rewritten and hold the same three record sets: one record per product
\* of the ledger as it is after the import, the ledger's sales listing in
\* order, and one record with the two tax rates.
C21_ImportRegeneratesBoth ==
    [][\A op \in {"import_from_excel", "import_from_tsv"} :
          (Called(op) /\ last'.result = "ok")
          => /\ excel_doc'.exists /\ tsv_doc'.exists
             /\ tsv_doc'.frames = excel_doc'.frames
             /\ \A set \in {"products", "sales", "tax_settings"} :
                    excel_doc'.frames[set].present
             /\ RowSet(excel_doc'.frames.products) = {ProductCells(p) : p \in db'.products}
             /\ Len(excel_doc'.frames.products.rows) = Cardinality(db'.products)
             /\ excel_doc'.frames.sales.rows =
                    [i \in 1..Len(fetch_all_sales(db')) |-> SaleCells(fetch_all_sales(db')[i])]
             /\ excel_doc'.frames.tax_settings.rows = <<TaxCells(get_tax_rates(db'))>>]_vars

\* an import from the TSV file succeeded and left documents that list two
\* products or more, a sale and tax rates other than the defaults
C21_Witness ==
    /\ last.op = "import_from_tsv"
    /\ last.result = "ok"
    /\ tsv_doc.exists
    /\ Len(tsv_doc.frames.products.rows) >= 2
    /\ tsv_doc.frames.sales.rows # <<>>
    /\ get_tax_rates(db).vat_rate # DefaultVat

\* C22: import_from_excel and import_from_tsv given a path at which there is
\* no file fail with NotFound and leave the ledger and both sync documents
\* unchanged; no import of an existing file reports NotFound.
C22_MissingFileNotFound ==
    [][\A op \in {"import_from_excel", "import_from_tsv"} :
          Called(op)
          => /\ ~last'.doc.exists
                => (last'.result = "NotFound" /\ db' = db /\ DocsUnchanged)
             /\ last'.result = "NotFound" => ~last'.doc.exists]_vars

\* an import from the TSV sync file was refused because the file had not been
\* written yet, on a ledger that holds products and a sale and after the
\* workbook had been written
C22_Witness ==
    /\ last.op = "import_from_tsv"
    /\ last.result = "NotFound"
    /\ ~tsv_doc.exists
    /\ excel_doc.exists
    /\ db.products # {}
    /\ db.sales # <<>>

\* the record sets an import gets from the file it is given
ReadDoc(op, file) ==
    IF op = "import_from_excel" THEN read_excel(file) ELSE read_tsv(file)

\* the sales listing and the tax record a snapshot holds once the sales set
\* and the tax record of `frames` have been applied to d
AppliedSales(d, frames) ==
    LET sales == JoinSales(d, KnownSales(d, fillna(frames.sales).rows))
    IN  [i \in 1..Len(sales) |-> SaleCells(sales[i])]
AppliedTax(frames) ==
    [vat_rate |-> Num(RateOf(frames.tax_settings.rows[1], "vat_rate", MissingVat)),
     income_tax_rate |-> Num(RateOf(frames.tax_settings.rows[1], "income_tax_rate",
                                    MissingIncomeTax))]

\* C23: an import is a critical section for the snapshots of export_documents:
\* a snapshot that holds the products an import has applied also holds the
\* sales set and the tax record of that import, never the sales or the tax
\* settings from before it.  (No other mutation runs between the steps of an
\* import: the handlers are callbacks of one Tk main loop and each runs to its
\* end, which is why an import is one step here.)
C23_ImportCriticalSection ==
    [][\A op \in {"import_from_excel", "import_from_tsv"} :
          LET frames == ReadDoc(op, last.doc)
          IN  (/\ Called("export_documents") /\ last'.result = "ok"
               /\ last.op = op /\ last.doc.exists
               /\ last.step # "products"
               /\ frames.products.rows # <<>>
               /\ RowSet(fillna(frames.products)) \subseteq RowSet(excel_doc'.frames.products))
              => /\ frames.sales.present
                    => excel_doc'.frames.sales.rows = AppliedSales(db, frames)
                 /\ frames.tax_settings.rows # <<>>
                    => excel_doc'.frames.tax_settings.rows = <<AppliedTax(frames)>>]_vars

\* C24: a monthly summary that runs while other requests commit returns
\* figures all drawn from one committed state of the ledger, one of those the
\* call read from: its sums, rates, inventory value and cash balance never mix
\* the state before a sale or a restock with the state after it.
C24_SummaryFromOneState ==
    [][\A t \in Threads :
          (req[t].pc = "get_monthly_summary" /\ req'[t].pc = "idle")
          => \E d \in req[t].seen \cup {db} :
                last'.report = <<get_monthly_summary(d, req[t].args[1], req[t].args[2])>>]_vars

\* C25: in every reachable state the tax settings table holds exactly one
\* record, the one with id 1; a new store gets it with the rates (10, 10)
\* percent; update_tax_rates and the imports change its two rates in place;
\* opening an existing store again leaves the store, and so the rates that
\* were set, as they are.
C25_TaxSettingsSingleton ==
    [][/\ initialize(NewFile).tax_settings =
             {[id |-> 1, vat_rate |-> DefaultVat, income_tax_rate |-> DefaultIncomeTax]}
       /\ \A d \in {db, db'} :
             Cardinality(d.tax_settings) = 1 /\ \A r \in d.tax_settings : r.id = 1
       /\ Called("initialize") => db' = db
       /\ \A op \in {"update_tax_rates", "import_from_excel", "import_from_tsv"} :
             Called(op)
             => db'.tax_settings =
                   {[r EXCEPT !.vat_rate = get_tax_rates(db').vat_rate,
                              !.income_tax_rate = get_tax_rates(db').income_tax_rate]
                       : r \in db.tax_settings}]_vars

\* the store was opened again after its VAT rate had been set to 20 percent,
\* and the rate is still 20 percent
C25_Witness ==
    /\ last.op = "initialize"
    /\ get_tax_rates(db).vat_rate = 20
    /\ Cardinality(db.tax_settings) = 1

\* the calendar month containing a date
MonthOf(date) == <<date[1], date[2]>>

\* C26: get_monthly_summary(year, month) sums over the half-open window from
\* the first day of the month to the first day of the next one, December
\* running into January of the next year: its revenue, purchases and cash flow
\* are those of the listed sales, IN movements and cash movements whose date
\* lies in that calendar month, and the window of exactly one month of the
\* calendar, the month of its date, holds each record.
C26_HalfOpenWindow ==
    [][Called("get_monthly_summary")
       => LET ym == <<last'.args[1], last'.args[2]>>
              report == last'.report[1]
              listed(s) == \E p \in db.products : p.id = s.product_id
              calendar == {<<y, m>> : y \in 2023..2024, m \in 1..12}
              dates == {db.sales[i].sale_date : i \in 1..Len(db.sales)}
                       \cup {db.inventory_movements[i].movement_date :
                                i \in 1..Len(db.inventory_movements)}
                       \cup {db.cash_movements[i].movement_date :
                                i \in 1..Len(db.cash_movements)}
          IN  /\ report.revenue =
                    SumRevenue(SelectSeq(db.sales,
                        LAMBDA s : listed(s) /\ MonthOf(s.sale_date) = ym))
              /\ report.purchases =
                    SumPurchases(SelectSeq(db.inventory_movements,
                        LAMBDA m : m.movement_type = "IN" /\ MonthOf(m.movement_date) = ym))
              /\ report.cash_flow =
                    SumAmounts(SelectSeq(db.cash_movements,
                        LAMBDA m : MonthOf(m.movement_date) = ym))
              /\ \A date \in dates :
                    {m \in calendar :
                        InWindow(isoformat(date), WindowStart(m[1], m[2]),
                                 WindowEnd(m[1], m[2]))} = {MonthOf(date)}]_vars

\* a December summary taken when the ledger holds a sale of 31 December and
\* one of 1 January: only the December sale is counted
C26_Witness ==
    /\ last.op = "get_monthly_summary"
    /\ last.args = <<2023, 12>>
    /\ \E i, j \in 1..Len(db.sales) :
          /\ db.sales[i].sale_date = <<2023, 12, 31>>
          /\ db.sales[j].sale_date = <<2024, 1, 1>>
    /\ last.report[1].revenue > 0
    /\ last.report[1].revenue =
          SumRevenue(SelectSeq(db.sales, LAMBDA s : s.sale_date = <<2023, 12, 31>>))

\* C27: whatever rates update_tax_rates was given, get_monthly_summary reports
\* income_tax = max(gross_profit, 0) * income_tax_rate, which is never
\* negative, and net_income = gross_profit - income_tax, so that net_income is
\* gross_profit wherever gross_profit <= 0.
C27_IncomeTaxNeverNegative ==
    [][Called("get_monthly_summary")
       => LET report == last'.report[1]
              rate == get_tax_rates(db).income_tax_rate
          IN  /\ report.income_tax = Max(report.gross_profit, 0) * rate
              /\ report.income_tax >= 0
              /\ report.net_income = Percent * report.gross_profit - report.income_tax
              /\ report.gross_profit <= 0
                 => report.net_income = Percent * report.gross_profit]_vars

\* C28: whatever month is asked for, the cash_balance of get_monthly_summary
\* is the sum of the amounts of all cash movements of the ledger and its
\* inventory_value the sum of stock * cost over all products; and
\* assets = cash_balance + inventory_value, liabilities = vat + income_tax,
\* equity = assets - liabilities.
C28_BalanceSheet ==
    [][Called("get_monthly_summary")
       => LET report == last'.report[1]
          IN  /\ report.cash_balance = SumAmounts(db.cash_movements)
              /\ report.inventory_value = SumStockValue(db.products)
              /\ report.assets = report.cash_balance + report.inventory_value
              /\ report.liabilities = report.vat + report.income_tax
              /\ report.equity = Percent * report.assets - report.liabilities]_vars

\* a summary of February, a month without any movement, over a ledger that
\* has paid for a restock and sold: the balance and the stock value are those
\* of the whole ledger
C28_Witness ==
    /\ last.op = "get_monthly_summary"
    /\ last.args = <<2024, 2>>
    /\ last.report[1].cash_flow = 0
    /\ \E i \in 1..Len(db.cash_movements) : db.cash_movements[i].amount < 0
    /\ \E i \in 1..Len(db.cash_movements) : db.cash_movements[i].amount > 0
    /\ last.report[1].cash_balance = SumAmounts(db.cash_movements)
    /\ last.report[1].inventory_value > 0

\* C29: get_monthly_summary returns normally in every ledger state, the empty
\* one included; for a month that holds no sale its revenue, cogs, vat,
\* income_tax and net_income are 0, for a month that holds no IN movement its
\* purchases are 0 and for a month that holds no cash movement its cash_flow
\* is 0.
C29_EmptyWindowIsZero ==
    [][Called("get_monthly_summary")
       => LET ym == <<last'.args[1], last'.args[2]>>
              report == last'.report[1]
              none(rows, date(_), kept(_)) ==
                  \A i \in 1..Len(rows) : kept(rows[i]) => MonthOf(date(rows[i])) # ym
              sale_date(s) == s.sale_date
              movement_date(m) == m.movement_date
              any(r) == TRUE
              in(m) == m.movement_type = "IN"
          IN  /\ last'.result = "ok"
              /\ none(db.sales, sale_date, any)
                 => /\ report.revenue = 0 /\ report.cogs = 0 /\ report.vat = 0
                    /\ report.income_tax = 0 /\ report.net_income = 0
              /\ none(db.inventory_movements, movement_date, in) => report.purchases = 0
              /\ none(db.cash_movements, movement_date, any) => report.cash_flow = 0
              /\ db = EmptyDb
                 => /\ report.revenue = 0 /\ report.cogs = 0 /\ report.vat = 0
                    /\ report.income_tax = 0 /\ report.net_income = 0
                    /\ report.purchases = 0 /\ report.cash_flow = 0]_vars

\* a summary of January over a ledger whose only sales, purchases and cash
\* movements are of December: every figure of the month is 0
C29_Witness ==
    /\ last.op = "get_monthly_summary"
    /\ last.result = "ok"
    /\ last.args = <<2024, 1>>
    /\ db.sales # <<>>
    /\ \A i \in 1..Len(db.sales) : MonthOf(db.sales[i].sale_date) = <<2023, 12>>
    /\ \A i \in 1..Len(db.cash_movements) :
          MonthOf(db.cash_movements[i].movement_date) = <<2023, 12>>
    /\ last.report[1].revenue = 0
    /\ last.report[1].net_income = 0
    /\ last.report[1].purchases = 0
    /\ last.report[1].cash_flow = 0

\* C30: get_monthly_trends(months) returns one row for each calendar month
\* that has a listed sale, the `months` most recent of them only, the older
\* month first: never more than `months` rows, the labels strictly ascending
\* in time, no month left out that is more recent than a returned one, and
\* each row with the revenue of its month.
C30_TrendRows ==
    [][Called("get_monthly_trends")
       => LET rows == last'.report
              count == last'.args[1]
              listed == SelectSeq(db.sales,
                            LAMBDA s : \E p \in db.products : p.id = s.product_id)
              sold == {MonthOf(listed[i].sale_date) : i \in 1..Len(listed)}
              label(m) == Digits(m[1], 4) \o <<Dash>> \o Digits(m[2], 2)
              month(i) == CHOOSE m \in sold : label(m) = rows[i].period
              before(a, b) == a[1] < b[1] \/ (a[1] = b[1] /\ a[2] < b[2])
          IN  /\ Len(rows) <= count
              /\ Len(rows) = IF Cardinality(sold) < count THEN Cardinality(sold) ELSE count
              /\ \A i \in 1..Len(rows) : \E m \in sold : label(m) = rows[i].period
              /\ \A i, j \in 1..Len(rows) : i < j => before(month(i), month(j))
              /\ \A m \in sold :
                    (\E i \in 1..Len(rows) : before(month(i), m))
                    => \E j \in 1..Len(rows) : month(j) = m
              /\ \A i \in 1..Len(rows) :
                    rows[i].revenue =
                       SumRevenue(SelectSeq(listed,
                           LAMBDA s : MonthOf(s.sale_date) = month(i)))]_vars

\* a trend of one period over a ledger with sales in December and in January:
\* the one row is January's
C30_Witness ==
    /\ last.op = "get_monthly_trends"
    /\ last.args = <<1>>
    /\ {MonthOf(db.sales[i].sale_date) : i \in 1..Len(db.sales)}
          = {<<2023, 12>>, <<2024, 1>>}
    /\ Len(last.report) = 1
    /\ last.report[1].period = <<2, 0, 2, 4, Dash, 0, 1>>
    /\ last.report[1].revenue > 0

\* C31: every row of get_monthly_trends carries the label YYYY-MM of a
\* calendar month, and its revenue, gross_profit, vat and income_tax are those
\* get_monthly_summary(YYYY, MM) returns in the same ledger state.
C31_TrendMatchesSummary ==
    [][Called("get_monthly_trends")
       => LET rows == last'.report
              calendar == {<<y, m>> : y \in 2023..2024, m \in 1..12}
              label(m) == Digits(m[1], 4) \o <<Dash>> \o Digits(m[2], 2)
          IN  \A i \in 1..Len(rows) :
                 /\ \E m \in calendar : label(m) = rows[i].period
                 /\ \A m \in calendar :
                       label(m) = rows[i].period
                       => LET summary == get_monthly_summary(db, m[1], m[2])
                          IN  /\ rows[i].revenue = summary.revenue
                              /\ rows[i].gross_profit = summary.gross_profit
                              /\ rows[i].vat = summary.vat
                              /\ rows[i].income_tax = summary.income_tax]_vars

\* a trend of two periods over a ledger that sold at a profit in December and
\* at a loss in January
C31_Witness ==
    /\ last.op = "get_monthly_trends"
    /\ Len(last.report) = 2
    /\ last.report[1].gross_profit > 0
    /\ last.report[1].income_tax # 0
    /\ last.report[2].gross_profit < 0
    /\ last.report[2].income_tax = 0
    /\ last.report[2].vat > 0

\* C32: the inventory movements and the cash movements are append-only logs:
\* whatever the call (add_product, restock, record_sale, update_tax_rates,
\* bulk_upsert_products, replace_sales, an import, an export, opening the
\* store again), each log after the step starts with the log before it.
C32_LogsAppendOnly ==
    [][LET extends(old, new) ==
               Len(old) <= Len(new) /\ SubSeq(new, 1, Len(old)) = old
       IN  /\ extends(db.inventory_movements, db'.inventory_movements)
           /\ extends(db.cash_movements, db'.cash_movements)]_vars

\* an import has just replaced the sales by none, and the movements the sold
\* goods had left are all still there
C32_Witness ==
    /\ last.op \in {"replace_sales", "import_from_excel", "import_from_tsv"}
    /\ last.result = "ok"
    /\ db.sales = <<>>
    /\ \E i \in 1..Len(db.inventory_movements) :
          db.inventory_movements[i].movement_type = "OUT"
    /\ \E i \in 1..Len(db.cash_movements) : db.cash_movements[i].amount > 0

\* C33: in every reachable state every inventory movement and every sale has
\* a quantity > 0, whatever arguments add_product, restock and record_sale
\* were given and whatever rows replace_sales was given.
C33_QuantitiesPositive ==
    /\ \A i \in 1..Len(db.inventory_movements) : db.inventory_movements[i].quantity > 0
    /\ \A i \in 1..Len(db.sales) : db.sales[i].quantity > 0

\* the quantities of the movements of one direction a product has
RECURSIVE MovedQuantity(_, _, _)
MovedQuantity(rows, product_id, movement_type) ==
    IF rows = <<>> THEN 0
    ELSE (IF Head(rows).product_id = product_id /\ Head(rows).movement_type = movement_type
          THEN Head(rows).quantity ELSE 0)
         + MovedQuantity(Tail(rows), product_id, movement_type)

\* C34: in every state reached through add_product, restock, record_sale and
\* generate_dummy_data, the stock of each product is the sum of the quantities
\* of its IN movements minus that of its OUT movements.
C34_StockMatchesMovements ==
    \A p \in db.products :
        p.stock = MovedQuantity(db.inventory_movements, p.id, "IN")
                  - MovedQuantity(db.inventory_movements, p.id, "OUT")

\* C35: the cash balance is the revenue returned by the successful
\* record_sale calls less cost * quantity of the successful restock calls:
\* a successful record_sale raises it by the revenue it returns, a successful
\* restock lowers it by cost * quantity, and no other step (add_product,
\* update_tax_rates, bulk_upsert_products, replace_sales, an import, an export,
\* a failed call) changes it.
C35_CashBalanceIsSalesLessRestocks ==
    [][LET ok(op) == Called(op) /\ last'.result = "ok"
       IN  /\ db = EmptyDb => get_cash_balance(db) = 0
           /\ ok("record_sale")
              => get_cash_balance(db') = get_cash_balance(db) + last'.revenue
           /\ ok("restock")
              => get_cash_balance(db') =
                    get_cash_balance(db)
                    - TheRow(get_product(db, last'.code)).cost * last'.qty
           /\ ~(ok("record_sale") \/ ok("restock"))
              => get_cash_balance(db') = get_cash_balance(db)]_vars

\* a restock of a ledger that had sold: the balance is the one sale less the
\* two restocks
C35_Witness ==
    /\ last.op = "restock"
    /\ last.result = "ok"
    /\ last.qty > 0
    /\ \E i \in 1..Len(db.cash_movements) : db.cash_movements[i].amount > 0
    /\ get_cash_balance(db) < 0

\* C36: replace_sales changes the sales only: the products with their stocks,
\* the inventory movements, the cash movements, the cash balance and the tax
\* settings are after the call what they were before it.  So an import, which
\* discards or adds sales through it, leaves both logs and the cash balance as
\* they were, and the stock of every product its products set does not name.
C36_ReplaceSalesFrame ==
    [][/\ Called("replace_sales")
          => /\ db'.products = db.products
             /\ db'.product_seq = db.product_seq
             /\ db'.inventory_movements = db.inventory_movements
             /\ db'.cash_movements = db.cash_movements
             /\ get_cash_balance(db') = get_cash_balance(db)
             /\ db'.tax_settings = db.tax_settings
       /\ \A op \in {"import_from_excel", "import_from_tsv"} :
             Called(op)
             => LET named == IF last'.doc.exists
                             THEN DocCodes(ReadDoc(op, last'.doc)) ELSE {}
                IN  /\ db'.inventory_movements = db.inventory_movements
                    /\ db'.cash_movements = db.cash_movements
                    /\ get_cash_balance(db') = get_cash_balance(db)
                    /\ \A p \in db.products :
                          p.product_code \notin named
                          => \E q \in db'.products : q.id = p.id /\ q.stock = p.stock]_vars

\* replace_sales has discarded the one sale of the ledger: the stock the sale
\* took is not back, its OUT movement and its receipt are still there
C36_Witness ==
    /\ last.op = "replace_sales"
    /\ last.result = "ok"
    /\ db.sales = <<>>
    /\ \E p \in db.products :
          /\ MovedQuantity(db.inventory_movements, p.id, "OUT") > 0
          /\ p.stock = MovedQuantity(db.inventory_movements, p.id, "IN")
                       - MovedQuantity(db.inventory_movements, p.id, "OUT")
    /\ \E i \in 1..Len(db.cash_movements) : db.cash_movements[i].amount > 0

\* quantity * unit cost of the sales of product `product_id` in `sales`
RECURSIVE SoldAtCost(_, _, _)
SoldAtCost(sales, product_id, cost) ==
    IF sales = <<>> THEN 0
    ELSE (IF Head(sales).product_id = product_id THEN Head(sales).quantity * cost ELSE 0)
         + SoldAtCost(Tail(sales), product_id, cost)

\* C37: the revenue get_monthly_summary reports for the recorded sales is
\* fixed by the sale price kept with each sale, its cogs is computed from the
\* cost each product has when the report is made: a bulk_upsert_products that
\* changes prices and costs leaves the revenue its sales query returns for the
\* month as it was and moves the cogs by quantity * (new cost - old cost) for
\* every sale.
C37_RevenueFixedCogsCurrent ==
    [][(Called("bulk_upsert_products") /\ last'.result = "ok")
       => LET before == SummaryRead(db, today[1], today[2], 1)
              after == SummaryRead(db', today[1], today[2], 1)
              shift(p) == LET q == TheRow({r \in db'.products : r.id = p.id})
                          IN  SoldAtCost(db.sales, p.id, q.cost - p.cost)
              RECURSIVE total(_)
              total(products) ==
                  IF products = {} THEN 0
                  ELSE LET p == CHOOSE r \in products : TRUE
                       IN  shift(p) + total(products \ {p})
          IN  /\ db'.sales = db.sales
              /\ after.revenue = before.revenue
              /\ after.cogs = before.cogs + total(db.products)]_vars

\* after a bulk upsert that changed the cost of a sold product, the cogs of
\* the month is no longer the cost of goods the sales returned (the unit costs
\* of the OUT movements), while the revenue is still the receipts of the sales
C37_Witness ==
    /\ last.op = "bulk_upsert_products"
    /\ last.result = "ok"
    /\ db.sales # <<>>
    /\ LET summary == get_monthly_summary(db, today[1], today[2])
           out == SelectSeq(db.inventory_movements, LAMBDA m : m.movement_type = "OUT")
           receipts == SelectSeq(db.cash_movements, LAMBDA m : m.amount > 0)
       IN  /\ summary.cogs # SumPurchases(out)
           /\ summary.revenue = SumAmounts(receipts)
           /\ summary.revenue > 0

====
